---- MODULE Spec2Model ----
(***************************************************************************)
(* Model of the task-aggregation engine of investingIQ.                    *)
(*                                                                         *)
(*  - the Redis-backed aggregator  functions/aggregate_functions           *)
(*    (main, update_task_field, get_task_results, check_completion),       *)
(*    both with whole handler invocations run one at a time (SpecSeq,      *)
(*    SpecPerm) and with invocations interleaved at the granularity of     *)
(*    their Redis commands and callbacks (SpecConc);                       *)
(*  - the phase-driven aggregators  azure-functions/aggregate_functions    *)
(*    and QueueWorker._handle_aggregate_message (SpecPhase).               *)
(***************************************************************************)
EXTENDS Integers, Sequences, FiniteSets, TLC

(***************************************************************************)
(* Python values.  A value is a tuple whose first element is its type.     *)
(* Lists and dicts are abstracted to their number of items: the aggregator *)
(* passes payloads through and only tests them for None and truthiness.    *)
(***************************************************************************)
None == <<"None">>
PyList(n) == <<"list", n>>
PyDict(n) == <<"dict", n>>
PyStr(s) == <<"str", s>>
PyInt(n) == <<"int", n>>

\* `x is not None`
IsNotNone(v) == v[1] # "None"

\* Python truthiness: bool(v)
Truthy(v) ==
    CASE v[1] = "None" -> FALSE
      [] v[1] = "list" -> v[2] > 0
      [] v[1] = "dict" -> v[2] > 0
      [] v[1] = "str"  -> v[2] # ""
      [] v[1] = "int"  -> v[2] # 0

(***************************************************************************)
(* json.dumps / json.loads on the values above.                            *)
(***************************************************************************)
Strs == {"AAPL", "MSFT"}

\* The decimal text of the integers that are written: str(n)
IntText(n) ==
    CASE n = 10 -> "10"
      [] n = 40 -> "40"
      [] n = 90 -> "90"

json_dumps(v) ==
    CASE v[1] = "None" -> "null"
      [] v[1] = "list" -> IF v[2] = 0 THEN "[]" ELSE "[1]"
      [] v[1] = "dict" -> IF v[2] = 0 THEN "{}" ELSE "{\"k\": 1}"
      [] v[1] = "str"  -> "\"" \o v[2] \o "\""
      [] v[1] = "int"  -> IntText(v[2])

\* The texts json.loads accepts; on any other text it raises JSONDecodeError.
IsJson(s) ==
    \/ s \in {"null", "[]", "[1]", "{}", "{\"k\": 1}"}
    \/ \E n \in {10, 40, 90} : s = IntText(n)
    \/ \E t \in Strs : s = "\"" \o t \o "\""

json_loads(s) ==
    CASE s = "null" -> None
      [] s = "[]" -> PyList(0)
      [] s = "[1]" -> PyList(1)
      [] s = "{}" -> PyDict(0)
      [] s = "{\"k\": 1}" -> PyDict(1)
      [] \E n \in {10, 40, 90} : s = IntText(n) ->
            PyInt(CHOOSE n \in {10, 40, 90} : s = IntText(n))
      [] OTHER -> PyStr(CHOOSE t \in Strs : s = "\"" \o t \o "\"")

(***************************************************************************)
(* Redis: a keyed store of hashes with a time-to-live per key.             *)
(* A hash is a function from the field names it holds to texts; a key      *)
(* that holds no hash maps to the empty function.                          *)
(***************************************************************************)
TASK_TTL == 3600

TaskIds == {"t1"}
\* message.get("task_id") of a message without the key is None, and the
\* f-string f"task:{task_id}" renders it as the text None
MissingTaskId == "None"
Key(task_id) == "task:" \o task_id
Keys == {Key(t) : t \in TaskIds \cup {MissingTaskId}}

NoHash == << >>
TTL_NO_KEY == -2
TTL_NO_EXPIRY == -1

\* APPEND-like write: a second write to a field accumulates instead of replacing.
HSetAppend(hash, field, value) ==
    [f \in DOMAIN hash \cup {field} |->
        IF f # field THEN hash[f]
        ELSE IF field \in DOMAIN hash THEN hash[f] \o value ELSE value]

\* Whole-value write: the key is overwritten by a hash holding only this field.
HSetWholeBlob(hash, field, value) ==
    [f \in {field} |-> value]

\* HSET key field value, on the hash stored under the key
HSet(hash, field, value) ==
    [f \in DOMAIN hash \cup {field} |-> IF f = field THEN value ELSE hash[f]]

\* r.hset(key, field, value): a key created by HSET has no expiry yet
RedisHSet(r, key, field, value) ==
    [store  |-> [r.store EXCEPT ![key] = HSet(@, field, value)],
     expiry |-> [r.expiry EXCEPT ![key] = IF @ = TTL_NO_KEY THEN TTL_NO_EXPIRY ELSE @]]

\* r.expire(key, seconds): no effect on a missing key
RedisExpire(r, key, seconds) ==
    [store  |-> r.store,
     expiry |-> [r.expiry EXCEPT ![key] = IF @ = TTL_NO_KEY THEN @ ELSE seconds]]

\* r.delete(key): removing a missing key is a no-op
RedisDelete(r, key) ==
    [store  |-> [r.store EXCEPT ![key] = NoHash],
     expiry |-> [r.expiry EXCEPT ![key] = TTL_NO_KEY]]

\* r.hgetall(key): the empty mapping for a missing key
RedisHGetAll(r, key) == r.store[key]

EmptyRedis ==
    [store  |-> [k \in Keys |-> NoHash],
     expiry |-> [k \in Keys |-> TTL_NO_KEY]]

(***************************************************************************)
(* functions/aggregate_functions                                           *)
(***************************************************************************)
MLSlots == {"stock_data", "news", "ml_prediction", "ml_technical", "ml_sentiment"}
LLMSlots == {"llm_sentiment", "llm_summary", "llm_insights"}
Slots == MLSlots \cup LLMSlots
ResultFields == Slots \cup {"llm_config", "ticker"}

\* get_task_results with defaults of {} instead of None
get_task_results_dict_defaults(r, task_id) ==
    LET data == RedisHGetAll(r, Key(task_id))
    IN  [f \in ResultFields \cup DOMAIN data |->
            IF f \in DOMAIN data
            THEN IF IsJson(data[f]) THEN json_loads(data[f]) ELSE PyStr(data[f])
            ELSE PyDict(0)]

\* get_task_results: every known field defaults to None; each stored field is
\* decoded with json.loads, and kept as raw text when it does not decode.
get_task_results(r, task_id) ==
    LET data == RedisHGetAll(r, Key(task_id))
    IN  [f \in ResultFields \cup DOMAIN data |->
            IF f \in DOMAIN data
            THEN IF IsJson(data[f]) THEN json_loads(data[f]) ELSE PyStr(data[f])
            ELSE None]

\* update_task_field: HSET of the encoded value followed by EXPIRE
update_task_field(r, task_id, field, value) ==
    RedisExpire(RedisHSet(r, Key(task_id), field, json_dumps(value)),
                Key(task_id), TASK_TTL)

\* The slot a task_type writes (the if/elif chain of main); None for a
\* task_type the chain does not know.
SlotOf(task_type) ==
    CASE task_type = "stock_data_ready" -> "stock_data"
      [] task_type = "news_ready" -> "news"
      [] task_type = "ml_prediction_ready" -> "ml_prediction"
      [] task_type = "ml_technical_ready" -> "ml_technical"
      [] task_type = "ml_sentiment_ready" -> "ml_sentiment"
      [] task_type = "llm_sentiment_ready" -> "llm_sentiment"
      [] task_type = "llm_summary_ready" -> "llm_summary"
      [] task_type = "llm_insights_ready" -> "llm_insights"
      [] OTHER -> "none"

TaskTypes == {"stock_data_ready", "news_ready", "ml_prediction_ready",
              "ml_technical_ready", "ml_sentiment_ready", "llm_sentiment_ready",
              "llm_summary_ready", "llm_insights_ready"}

\* The percentage main passes to send_progress after the write; 0 when the
\* branch sends none.
ProgressOf(task_type) ==
    CASE task_type = "ml_prediction_ready" -> 40
      [] task_type = "ml_technical_ready" -> 45
      [] task_type = "ml_sentiment_ready" -> 50
      [] task_type = "llm_sentiment_ready" -> 60
      [] task_type = "llm_summary_ready" -> 70
      [] task_type = "llm_insights_ready" -> 90
      [] OTHER -> 0

\* shared/webpubsub_utils.send_progress: the callback payload
send_progress(task_id, progress) ==
    [task_id |-> task_id, progress |-> progress, status |-> "processing",
     ticker |-> PyStr(""), data |-> << >>]

\* shared/webpubsub_utils.send_completed_with_data: the callback payload
send_completed_with_data(task_id, ticker, results) ==
    [task_id |-> task_id, progress |-> 100, status |-> "completed",
     ticker |-> ticker, data |-> [s \in Slots |-> results[s]]]

\* check_completion: ml_complete
ml_complete(results) == \A s \in MLSlots : IsNotNone(results[s])

\* check_completion: llm_complete
llm_complete(results) == \A s \in LLMSlots : IsNotNone(results[s])

\* check_completion: all_complete
all_complete(results) ==
    IF IsNotNone(results["llm_config"])
    THEN ml_complete(results) /\ llm_complete(results)
    ELSE ml_complete(results)

\* check_completion: when all_complete, the completed callback with the
\* snapshot's data and then DELETE of the task key; otherwise only logging.
check_completion(r, task_id, results) ==
    IF all_complete(results)
    THEN [r |-> RedisDelete(r, Key(task_id)),
          callbacks |-> <<send_completed_with_data(task_id, results["ticker"], results)>>]
    ELSE [r |-> r, callbacks |-> << >>]

\* main, lines 75-104: the writes of one message, in the order the code issues
\* them (ticker always, llm_config when truthy, then the slot of the task_type)
WritesOf(m) ==
    <<[field |-> "ticker", value |-> m.ticker]>>
    \o (IF Truthy(m.llm_config)
        THEN <<[field |-> "llm_config", value |-> m.llm_config]>> ELSE << >>)
    \o (IF SlotOf(m.task_type) # "none"
        THEN <<[field |-> SlotOf(m.task_type), value |-> m.data]>> ELSE << >>)

RECURSIVE ApplyWrites(_, _, _)
ApplyWrites(r, task_id, writes) ==
    IF writes = << >> THEN r
    ELSE ApplyWrites(update_task_field(r, task_id, Head(writes).field, Head(writes).value),
                     task_id, Tail(writes))

\* main: one whole handler invocation on message m, from Redis state r.
\* Gives the Redis state it leaves, the callbacks it sent in order, and the
\* snapshot it read at line 107.
main(r, m) ==
    LET r1 == ApplyWrites(r, m.task_id, WritesOf(m))
        progress == IF ProgressOf(m.task_type) > 0
                    THEN <<send_progress(m.task_id, ProgressOf(m.task_type))>>
                    ELSE << >>
        results == get_task_results(r1, m.task_id)
        cc == check_completion(r1, m.task_id, results)
    IN  [r |-> cc.r, callbacks |-> progress \o cc.callbacks, results |-> results]

\* The completed callbacks among a sequence of callbacks
Completed(callbacks) == SelectSeq(callbacks, LAMBDA c : c.status = "completed")

(***************************************************************************)
(* State                                                                   *)
(***************************************************************************)
VARIABLES
    store,      \* Redis: key -> hash
    expiry,     \* Redis: key -> time-to-live (TTL_NO_KEY, TTL_NO_EXPIRY or seconds)
    completed,  \* number of 'completed' callbacks sent so far
    deleted,    \* number of DELETE commands issued so far
    inv,        \* SpecConc: the concurrent handler invocations, each with its
                \*   message m, its position pc, the index w of its current
                \*   update_task_field call and its local results
    prefix,     \* SpecConc: the task_types aggregated before the concurrent
                \*   invocations started
    bag,        \* SpecPerm: the result events of the task, as a sequence
    pending,    \* SpecPerm: the indices of the events of bag not yet delivered
    reports,    \* SpecPerm: the data of the completed callbacks sent, in order
    variant,    \* SpecPhase: which phase-driven aggregator runs ("azure", "worker")
    partial_results,  \* SpecPhase: the module-level dict task_id -> results
    phase2_sent,      \* SpecPhase: phase-2 work request batches emitted so far
    insights_sent,    \* SpecPhase: generate_insights requests emitted so far
    saved,            \* SpecPhase: reports committed to the database so far
    last,             \* SpecFail, SpecTtl: what the last step did
    life,             \* SpecTtl: per key, the seconds since its last write
                      \*   (idle) and what became of its record (fate)
    prod,             \* SpecProd: the producer, its waiting messages and results
    cb,               \* SpecCb: the fields of the CircuitBreaker
    th,               \* SpecCb: the threads calling call(), each with its
                      \*   position, its fallback and what its call saw and gave
    cbh,              \* SpecCb: the last operation on the breaker and what
                      \*   has happened to it since construction
    progress_log,     \* SpecProgress: the percentages of the progress
                      \*   callbacks sent, in order
    outbox,           \* SpecLoop: the work requests emitted and not yet answered
    event_loop,       \* SpecLoop: the asyncio event loop of the queue worker:
                      \*   the _process_queue coroutine that runs, those ready
                      \*   to run and those in asyncio.sleep, in order
    orch              \* SpecOrch: the orchestration, its position and history

redisVars == <<store, expiry, completed, deleted>>
concVars == <<inv, prefix>>
permVars == <<bag, pending, reports>>
phaseVars == <<variant, partial_results, phase2_sent, insights_sent, saved>>
failVars == <<last, life>>
prodVars == <<prod>>
cbVars == <<cb, th, cbh>>
extVars == <<progress_log, outbox, event_loop, orch>>
restVars == <<failVars, prodVars, cbVars, extVars>>
vars == <<redisVars, concVars, permVars, phaseVars, restVars>>

InitUnusedConc == inv = << >> /\ prefix = {}
InitUnusedPerm == bag = << >> /\ pending = {} /\ reports = << >>
InitUnusedPhase ==
    /\ variant = "none"
    /\ partial_results = << >>
    /\ phase2_sent = 0
    /\ insights_sent = 0
    /\ saved = 0

InitUnusedFail == last = << >> /\ life = << >>
InitUnusedProd == prod = << >>
InitUnusedCb == cb = << >> /\ th = << >> /\ cbh = << >>
InitUnusedExt ==
    progress_log = << >> /\ outbox = << >> /\ event_loop = << >> /\ orch = << >>
InitUnusedRest == InitUnusedFail /\ InitUnusedProd /\ InitUnusedCb /\ InitUnusedExt

R == [store |-> store, expiry |-> expiry]

(***************************************************************************)
(* Messages on the aggregate queue                                         *)
(***************************************************************************)
MaxCompleted == 2

\* The data a message may carry for a slot: null, or a value of the shape the
\* slot's producer sends (news: a list, here the empty list of a failed fetch).
ValueOf(slot) == IF slot = "news" THEN PyList(0) ELSE PyDict(1)
PayloadsOf(slot) == {None, ValueOf(slot)}
Tickers == {PyStr("AAPL")}
LlmConfigs == {None, PyDict(1)}

Messages ==
    UNION {[task_type : {tt}, task_id : TaskIds, ticker : Tickers,
            data : PayloadsOf(SlotOf(tt)), llm_config : LlmConfigs] : tt \in TaskTypes}

(***************************************************************************)
(* SpecSeq: handler invocations run one at a time, any message any number  *)
(* of times.                                                               *)
(***************************************************************************)
InitSeq ==
    /\ store = EmptyRedis.store
    /\ expiry = EmptyRedis.expiry
    /\ completed = 0
    /\ deleted = 0
    /\ InitUnusedConc
    /\ InitUnusedPerm
    /\ InitUnusedPhase
    /\ InitUnusedRest

\* One invocation of main on message m, run to its end.
Handle(m) ==
    /\ completed < MaxCompleted
    /\ LET res == main(R, m)
       IN  /\ store' = res.r.store
           /\ expiry' = res.r.expiry
           /\ completed' = completed + Len(Completed(res.callbacks))
           /\ deleted' = deleted + Len(Completed(res.callbacks))
    /\ UNCHANGED <<concVars, permVars, phaseVars, restVars>>

NextSeq == \E m \in Messages : Handle(m)

SpecSeq == InitSeq /\ [][NextSeq]_vars

(***************************************************************************)
(* SpecConc: handler invocations of one task run concurrently and          *)
(* interleave at each Redis command and at the completed callback.         *)
(*                                                                         *)
(* The task's request has an llm_config or none; its result events are the *)
(* ones the producers send, which do not carry it.  A prefix of them (in   *)
(* pipeline order) was aggregated before, one invocation at a time; then   *)
(* up to MaxConcurrent invocations, each for a different task_type, run    *)
(* concurrently.                                                           *)
(***************************************************************************)
MaxConcurrent == 2

SlotOrder == <<"stock_data_ready", "news_ready", "ml_prediction_ready",
               "ml_technical_ready", "ml_sentiment_ready", "llm_sentiment_ready",
               "llm_summary_ready", "llm_insights_ready">>

\* The result event of a task_type, as its producer sends it with a payload:
\* task_type, task_id, ticker, data and timestamp.  No producer copies the
\* llm_config of its request into the event, so message.get("llm_config")
\* of the aggregator gives None.
EventOf(tt) ==
    [task_type |-> tt, task_id |-> "t1", ticker |-> PyStr("AAPL"),
     data |-> ValueOf(SlotOf(tt)), llm_config |-> None]

\* The result events of a request, in pipeline order: the five of the data
\* and ML functions, and the three of llm_functions, which sends them only
\* for a request with an llm_config (`if not llm_config: return`)
RequiredEvents(cfg) ==
    [i \in 1..(IF Truthy(cfg) THEN 8 ELSE 5) |-> EventOf(SlotOrder[i])]

\* main on each message of a sequence in turn, one invocation at a time
RECURSIVE RunSeq(_, _)
RunSeq(acc, msgs) ==
    \* (the test of acc.completed makes TLC evaluate acc before it recurses)
    IF Len(msgs) = 0 \/ acc.completed < 0 THEN acc
    ELSE LET res == main(acc.r, msgs[1])
         IN  RunSeq([r |-> res.r,
                     completed |-> acc.completed + Len(Completed(res.callbacks))],
                    SubSeq(msgs, 2, Len(msgs)))

NoResults == [f \in ResultFields |-> None]

InitConc ==
    \E cfg \in LlmConfigs, k \in 0..Len(SlotOrder), P \in SUBSET TaskTypes :
        /\ Cardinality(P) \in 1..MaxConcurrent
        /\ k <= Len(RequiredEvents(cfg))
        /\ \A tt \in P : \E i \in DOMAIN RequiredEvents(cfg) : SlotOrder[i] = tt
        /\ LET before == RunSeq([r |-> EmptyRedis, completed |-> 0],
                                SubSeq(RequiredEvents(cfg), 1, k))
           IN  /\ store = before.r.store
               /\ expiry = before.r.expiry
               /\ completed = before.completed
               /\ deleted = before.completed
        /\ inv = [tt \in P |-> [m |-> EventOf(tt), req |-> cfg, pc |-> "hset",
                                w |-> 1, results |-> NoResults]]
        /\ prefix = {SlotOrder[i] : i \in 1..k}
        /\ InitUnusedPerm
        /\ InitUnusedPhase
        /\ InitUnusedRest

\* update_task_field line 54: r.hset(key, field, json.dumps(value))
StepHSet(i) ==
    /\ inv[i].pc = "hset"
    /\ LET wr == WritesOf(inv[i].m)[inv[i].w]
           r1 == RedisHSet(R, Key(inv[i].m.task_id), wr.field, json_dumps(wr.value))
       IN  /\ store' = r1.store
           /\ expiry' = r1.expiry
    /\ inv' = [inv EXCEPT ![i].pc = "expire"]
    /\ UNCHANGED <<completed, deleted, prefix>>

\* update_task_field line 55: r.expire(key, TASK_TTL); then the next
\* update_task_field call of main, or the send_progress of the branch
StepExpire(i) ==
    /\ inv[i].pc = "expire"
    /\ LET r1 == RedisExpire(R, Key(inv[i].m.task_id), TASK_TTL)
       IN  /\ store' = r1.store
           /\ expiry' = r1.expiry
    /\ inv' = IF inv[i].w < Len(WritesOf(inv[i].m))
              THEN [inv EXCEPT ![i].pc = "hset", ![i].w = @ + 1]
              ELSE IF ProgressOf(inv[i].m.task_type) > 0
                   THEN [inv EXCEPT ![i].pc = "progress"]
                   ELSE [inv EXCEPT ![i].pc = "hgetall"]
    /\ UNCHANGED <<completed, deleted, prefix>>

\* main lines 89-104: send_progress (a callback; no store access)
StepProgress(i) ==
    /\ inv[i].pc = "progress"
    /\ inv' = [inv EXCEPT ![i].pc = "hgetall"]
    /\ UNCHANGED <<store, expiry, completed, deleted, prefix>>

\* main that checks completion on what this invocation wrote, not re-reading
StepHGetAllOwnWrites(i) ==
    /\ inv[i].pc = "hgetall"
    /\ LET results == get_task_results(
                          ApplyWrites(EmptyRedis, inv[i].m.task_id, WritesOf(inv[i].m)),
                          inv[i].m.task_id)
       IN  inv' = [inv EXCEPT ![i].results = results,
                              ![i].pc = IF all_complete(results)
                                        THEN "send_completed" ELSE "waiting"]
    /\ UNCHANGED <<store, expiry, completed, deleted, prefix>>

\* main line 107 and check_completion lines 119-140: HGETALL into results,
\* then the evaluation of all_complete on these results
StepHGetAll(i) ==
    /\ inv[i].pc = "hgetall"
    /\ LET results == get_task_results(R, inv[i].m.task_id)
       IN  inv' = [inv EXCEPT ![i].results = results,
                              ![i].pc = IF all_complete(results)
                                        THEN "send_completed" ELSE "waiting"]
    /\ UNCHANGED <<store, expiry, completed, deleted, prefix>>

\* check_completion line 148: send_completed_with_data
StepSendCompleted(i) ==
    /\ inv[i].pc = "send_completed"
    /\ completed' = completed + 1
    /\ inv' = [inv EXCEPT ![i].pc = "delete"]
    /\ UNCHANGED <<store, expiry, deleted, prefix>>

\* check_completion with the DELETE ahead of the completed callback
StepDeleteFirst(i) ==
    /\ inv[i].pc = "send_completed"
    /\ LET r1 == RedisDelete(R, Key(inv[i].m.task_id))
       IN  /\ store' = r1.store
           /\ expiry' = r1.expiry
    /\ deleted' = deleted + 1
    /\ inv' = [inv EXCEPT ![i].pc = "finalized"]
    /\ UNCHANGED <<completed, prefix>>

\* check_completion line 149: r.delete(key)
StepDelete(i) ==
    /\ inv[i].pc = "delete"
    /\ LET r1 == RedisDelete(R, Key(inv[i].m.task_id))
       IN  /\ store' = r1.store
           /\ expiry' = r1.expiry
    /\ deleted' = deleted + 1
    /\ inv' = [inv EXCEPT ![i].pc = "finalized"]
    /\ UNCHANGED <<completed, prefix>>

NextConc ==
    /\ \E i \in DOMAIN inv :
          \/ StepHSet(i)
          \/ StepExpire(i)
          \/ StepProgress(i)
          \/ StepHGetAll(i)
          \/ StepSendCompleted(i)
          \/ StepDelete(i)
    /\ UNCHANGED <<permVars, phaseVars, restVars>>

SpecConc == InitConc /\ [][NextConc]_vars

(***************************************************************************)
(* SpecPerm: a fixed multiset of result events of one task that contains   *)
(* every required slot, delivered one invocation at a time in any order.   *)
(***************************************************************************)
MaxExtra == 1

\* Every sequence of at most n messages
RECURSIVE SeqsUpTo(_)
SeqsUpTo(n) ==
    IF n = 0 THEN {<< >>}
    ELSE SeqsUpTo(n - 1)
         \cup {Append(q, m) : q \in {x \in SeqsUpTo(n - 1) : Len(x) = n - 1}, m \in Messages}

InitPerm ==
    /\ store = EmptyRedis.store
    /\ expiry = EmptyRedis.expiry
    /\ completed = 0
    /\ deleted = 0
    /\ \E cfg \in LlmConfigs, extra \in SeqsUpTo(MaxExtra) :
          bag = RequiredEvents(cfg) \o extra
    /\ pending = DOMAIN bag
    /\ reports = << >>
    /\ InitUnusedConc
    /\ InitUnusedPhase
    /\ InitUnusedRest

\* One invocation of main on the i-th event of the multiset
Deliver(i) ==
    /\ i \in pending
    /\ LET res == main(R, bag[i])
       IN  /\ store' = res.r.store
           /\ expiry' = res.r.expiry
           /\ completed' = completed + Len(Completed(res.callbacks))
           /\ deleted' = deleted + Len(Completed(res.callbacks))
           /\ reports' = reports \o [n \in 1..Len(Completed(res.callbacks)) |->
                                        Completed(res.callbacks)[n].data]
    /\ pending' = pending \ {i}
    /\ UNCHANGED <<bag, concVars, phaseVars, restVars>>

NextPerm == \E i \in DOMAIN bag : Deliver(i)

SpecPerm == InitPerm /\ [][NextPerm]_vars

\* The reports main sends when the events of msgs are delivered in the order
\* of the sequence, from Redis state r
RECURSIVE ReportsOf(_, _)
ReportsOf(r, msgs) ==
    IF Len(msgs) = 0 THEN << >>
    ELSE LET res == main(r, msgs[1])
         IN  [n \in 1..Len(Completed(res.callbacks)) |-> Completed(res.callbacks)[n].data]
             \o ReportsOf(res.r, SubSeq(msgs, 2, Len(msgs)))

(***************************************************************************)
(* SpecPhase: the phase-driven aggregators, which keep the partial results *)
(* in a module-level dict and emit the work requests of the next phase:    *)
(*   "azure"  - azure-functions/aggregate_functions (main, check_and_proceed)*)
(*   "worker" - QueueWorker._handle_aggregate_message, _check_and_proceed  *)
(***************************************************************************)
MaxSent == 2

PhaseFields == {"stock_data", "news", "sentiment", "summary", "insights"}

\* The key under which each aggregator keeps the embedding result
EmbeddingField(v) == IF v = "azure" THEN "embedding_id" ELSE "embedding"

\* The initial results of a task (main lines 41-50, worker lines 207-216)
NewResults(v, ticker) ==
    [f \in PhaseFields \cup {"ticker", EmbeddingField(v)} |->
        IF f = "ticker" THEN ticker ELSE None]

\* The field an aggregate message writes: azure maps task_type (lines 55-71),
\* the worker uses result_type as the key (lines 221-222); "none" when the
\* message writes nothing.
PhaseFieldOf(v, m) ==
    IF v = "azure"
    THEN CASE m.task_type = "stock_data_ready" -> "stock_data"
           [] m.task_type = "news_ready" -> "news"
           [] m.task_type = "sentiment_ready" -> "sentiment"
           [] m.task_type = "summary_ready" -> "summary"
           [] m.task_type = "insights_ready" -> "insights"
           [] m.task_type = "embedding_ready" -> "embedding_id"
           [] OTHER -> "none"
    ELSE IF Truthy(m.result_type) THEN m.result_type[2] ELSE "none"

\* Guard of the first branch: stock_data and news and not sentiment
Phase1Complete(results) ==
    /\ Truthy(results["stock_data"])
    /\ Truthy(results["news"])
    /\ ~Truthy(results["sentiment"])

\* Guard of the second branch
Phase2Complete(results) ==
    /\ Truthy(results["stock_data"])
    /\ Truthy(results["sentiment"])
    /\ Truthy(results["summary"])
    /\ ~Truthy(results["insights"])

\* Guard of the third branch: all([...])
AllPhasesComplete(results) == \A f \in PhaseFields : Truthy(results[f])

\* check_and_proceed / _check_and_proceed: the first branch that applies
\* ("phase1", "phase2", "save") or "wait"
check_and_proceed(results) ==
    IF Phase1Complete(results) THEN "phase1"
    ELSE IF Phase2Complete(results) THEN "phase2"
    ELSE IF AllPhasesComplete(results) THEN "save"
    ELSE "wait"

\* Values the aggregate messages carry for a field: null, an empty value, or
\* a non-empty value of the producer's shape
PhaseValues(f) ==
    IF f = "news" THEN {None, PyList(0), PyList(1)}
    ELSE IF f \in {"embedding", "embedding_id"} THEN {None, PyStr("AAPL")}
    ELSE {None, PyDict(0), PyDict(1)}

AzureTaskTypes == {"stock_data_ready", "news_ready", "sentiment_ready",
                   "summary_ready", "insights_ready", "embedding_ready"}

PhaseMessages(v) ==
    IF v = "azure"
    THEN UNION {[task_type : {tt}, task_id : TaskIds, ticker : Tickers,
                 data : PhaseValues(PhaseFieldOf("azure", [task_type |-> tt]))]
                : tt \in AzureTaskTypes}
    ELSE UNION {[task_type : {"aggregate_result"}, result_type : {PyStr(f)},
                 task_id : TaskIds, ticker : Tickers, data : PhaseValues(f)]
                : f \in PhaseFields \cup {"embedding"}}

\* Outcomes of the database in save_report / _save_report
DbOutcomes == {"ok", "unset", "error"}

InitPhase ==
    /\ store = EmptyRedis.store
    /\ expiry = EmptyRedis.expiry
    /\ completed = 0
    /\ deleted = 0
    /\ InitUnusedConc
    /\ InitUnusedPerm
    /\ InitUnusedRest
    /\ variant \in {"azure", "worker"}
    /\ partial_results = << >>
    /\ phase2_sent = 0
    /\ insights_sent = 0
    /\ saved = 0

\* The dict after the entry of the task is created if missing and the field
\* of the message is stored
Stored(v, pr, m) ==
    LET init == IF m.task_id \in DOMAIN pr THEN pr[m.task_id]
                ELSE NewResults(v, m.ticker)
        f == PhaseFieldOf(v, m)
        results == IF f = "none" THEN init
                   ELSE [g \in DOMAIN init \cup {f} |-> IF g = f THEN m.data ELSE init[g]]
    IN  [t \in DOMAIN pr \cup {m.task_id} |-> IF t = m.task_id THEN results ELSE pr[t]]

\* The dict without the entry of task_id (del partial_results[task_id])
Del(pr, task_id) == [t \in DOMAIN pr \ {task_id} |-> pr[t]]

\* One aggregate message handled to its end by the aggregator of the variant.
\* db is what the database does if the report is saved: azure's save_report
\* re-raises a database error, so the del is skipped and main raises; the
\* worker's _save_report logs the error and the del follows.
HandlePhase(m, db) ==
    /\ phase2_sent < MaxSent
    /\ insights_sent < MaxSent
    /\ saved < MaxSent
    /\ LET pr == Stored(variant, partial_results, m)
           branch == check_and_proceed(pr[m.task_id])
       IN  /\ phase2_sent' = phase2_sent + (IF branch = "phase1" THEN 1 ELSE 0)
           /\ insights_sent' = insights_sent + (IF branch = "phase2" THEN 1 ELSE 0)
           /\ saved' = saved + (IF branch = "save" /\ db = "ok" THEN 1 ELSE 0)
           /\ partial_results' =
                 IF branch = "save" /\ (variant = "worker" \/ db # "error")
                 THEN Del(pr, m.task_id)
                 ELSE pr
    /\ UNCHANGED <<variant, redisVars, concVars, permVars, restVars>>

\* azure-functions/aggregate_functions.main
AzureHandle == variant = "azure" /\ \E m \in PhaseMessages("azure"), db \in DbOutcomes : HandlePhase(m, db)

\* QueueWorker._handle_aggregate_message
WorkerHandle == variant = "worker" /\ \E m \in PhaseMessages("worker"), db \in DbOutcomes : HandlePhase(m, db)

NextPhase == AzureHandle \/ WorkerHandle

SpecPhase == InitPhase /\ [][NextPhase]_vars

(***************************************************************************)
(* SpecFail: handler invocations run one at a time; a message may be       *)
(* malformed, and one Redis command of an invocation may raise.            *)
(***************************************************************************)
\* The Redis commands main issues for its writes, in order: update_task_field
\* is HSET then EXPIRE
RECURSIVE CmdsOf(_)
CmdsOf(writes) ==
    IF writes = << >> THEN << >>
    ELSE <<[op |-> "hset", field |-> Head(writes).field, value |-> Head(writes).value],
           [op |-> "expire", field |-> Head(writes).field, value |-> Head(writes).value]>>
         \o CmdsOf(Tail(writes))

ApplyCmd(r, task_id, c) ==
    IF c.op = "hset"
    THEN RedisHSet(r, Key(task_id), c.field, json_dumps(c.value))
    ELSE RedisExpire(r, Key(task_id), TASK_TTL)

\* The state after the first n commands of cmds
RECURSIVE ApplyCmds(_, _, _, _)
ApplyCmds(r, task_id, cmds, n) ==
    IF n = 0 THEN r
    ELSE ApplyCmd(ApplyCmds(r, task_id, cmds, n - 1), task_id, cmds[n])

\* main with an except clause that logs and returns instead of re-raising
main_swallowing(r, m, failAt) ==
    LET cmds == CmdsOf(WritesOf(m))
        n == Len(cmds)
    IN  [r |-> ApplyCmds(r, m.task_id, cmds, IF failAt \in 1..n THEN failAt - 1 ELSE n),
         callbacks |-> << >>, raised |-> FALSE,
         failed |-> IF failAt \in 1..n THEN cmds[failAt].op ELSE "none"]

\* main, one whole invocation in which the failAt-th Redis command it issues
\* raises (0: none does). A command that raises has no effect; the exception
\* leaves the try block at once, is logged and re-raised (lines 110-112).
\* Gives the Redis state left, the callbacks sent, whether main raised, and
\* the command that failed.
main_failing(r, m, failAt) ==
    LET cmds == CmdsOf(WritesOf(m))
        n == Len(cmds)
        r1 == ApplyCmds(r, m.task_id, cmds, IF failAt \in 1..n THEN failAt - 1 ELSE n)
        progress == IF ProgressOf(m.task_type) > 0
                    THEN <<send_progress(m.task_id, ProgressOf(m.task_type))>>
                    ELSE << >>
        results == get_task_results(r1, m.task_id)
        done == <<send_completed_with_data(m.task_id, results["ticker"], results)>>
    IN  IF failAt \in 1..n
        THEN [r |-> r1, callbacks |-> << >>, raised |-> TRUE, failed |-> cmds[failAt].op]
        ELSE IF failAt = n + 1
        THEN [r |-> r1, callbacks |-> progress, raised |-> TRUE, failed |-> "hgetall"]
        ELSE IF ~all_complete(results)
        THEN [r |-> r1, callbacks |-> progress, raised |-> FALSE, failed |-> "none"]
        ELSE IF failAt = n + 2
        THEN [r |-> r1, callbacks |-> progress \o done, raised |-> TRUE, failed |-> "delete"]
        ELSE [r |-> RedisDelete(r1, Key(m.task_id)), callbacks |-> progress \o done,
              raised |-> FALSE, failed |-> "none"]

\* What becomes of the Service Bus message of an invocation of main: the
\* trigger completes it when main returns and abandons it when main raises.
settle_of_main(raised) == IF raised THEN "abandoned" ELSE "complete"

\* The bodies a received message can have: text that is not JSON, JSON that
\* is not an object (a list, a number), and a JSON object
MessageBodies == {"invalid", "not_object", "object"}

\* What the handler of the queue does with a message: it returns, it raises
\* json.JSONDecodeError (the LLM client parsing a response), or it raises
\* another exception
HandlerOutcomes == {"returns", "raises_json", "raises"}

\* QueueWorker._process_queue, the body of the receive loop for one message.
\* json.loads, the log line reading message.get('task_type') and the call of
\* the handler are in one try block: a json.JSONDecodeError from any of them
\* (invalid text, or the handler itself) dead-letters the message, any other
\* exception (the AttributeError of .get on a body that is not an object, a
\* handler that raises) leaves the message unsettled (its lock expires and
\* it is delivered again), otherwise the message is completed.
process_queue(body, handler) ==
    IF body = "invalid" THEN "dead_letter"
    ELSE IF body = "not_object" THEN "unsettled"
    ELSE IF handler = "raises_json" THEN "dead_letter"
    ELSE IF handler = "raises" THEN "unsettled"
    ELSE "complete"

\* Whether _process_queue called the handler of the queue for this body
handler_called(body) == body = "object"

\* A task_type the if/elif chain of main does not know (it is one of the
\* phase-driven aggregator)
UnknownTaskTypes == {"sentiment_ready"}

\* The events of SpecFail: the five ML events of t1 with their data, and the
\* malformed ones
FailMessages ==
    [task_type : {tt \in TaskTypes : SlotOf(tt) \in MLSlots} \cup UnknownTaskTypes,
     task_id : TaskIds, ticker : Tickers, data : {PyDict(1)}, llm_config : {None}]
    \cup [task_type : {"stock_data_ready"}, task_id : {MissingTaskId},
          ticker : Tickers, data : {PyDict(1)}, llm_config : {None}]

Malformed(m) == m.task_id = MissingTaskId \/ SlotOf(m.task_type) = "none"

\* The most commands one invocation issues: three writes, HGETALL, DELETE
MaxCmds == 8

InitFail ==
    /\ store = EmptyRedis.store
    /\ expiry = EmptyRedis.expiry
    /\ completed = 0
    /\ deleted = 0
    /\ last = [handler |-> "init", malformed |-> FALSE, failed |-> "none",
               raised |-> FALSE, wrote |-> FALSE, sent |-> 0, settle |-> "none"]
    /\ life = << >>
    /\ InitUnusedConc
    /\ InitUnusedPerm
    /\ InitUnusedPhase
    /\ InitUnusedProd
    /\ InitUnusedCb
    /\ InitUnusedExt

\* One invocation of main on message m, in which command failAt raises
HandleFail(m, failAt) ==
    /\ completed < MaxCompleted
    /\ LET res == main_failing(R, m, failAt)
           sent == Len(Completed(res.callbacks))
       IN  /\ store' = res.r.store
           /\ expiry' = res.r.expiry
           /\ completed' = completed + sent
           /\ deleted' = deleted + (IF sent > 0 /\ ~res.raised THEN 1 ELSE 0)
           /\ last' = [handler |-> "main", malformed |-> Malformed(m),
                       failed |-> res.failed, raised |-> res.raised,
                       wrote |-> res.r # R, sent |-> sent,
                       settle |-> settle_of_main(res.raised)]
    /\ UNCHANGED <<life, concVars, permVars, phaseVars, prodVars, cbVars, extVars>>

\* One message of the queue worker's receive loop.  raised records that an
\* exception reached one of the except clauses after the body was parsed
\* (from message.get or from the handler); malformed that the body was not
\* JSON.
WorkerReceive(body, handler) ==
    /\ last' = [handler |-> "worker", malformed |-> body = "invalid", failed |-> "none",
                raised |-> \/ body = "not_object"
                           \/ (handler_called(body) /\ handler # "returns"),
                wrote |-> FALSE, sent |-> 0,
                settle |-> process_queue(body, handler)]
    /\ UNCHANGED <<life, redisVars, concVars, permVars, phaseVars, prodVars, cbVars, extVars>>

NextFail ==
    \/ \E m \in FailMessages, failAt \in 0..MaxCmds : HandleFail(m, failAt)
    \/ \E body \in MessageBodies, handler \in HandlerOutcomes :
          WorkerReceive(body, handler)

SpecFail == InitFail /\ [][NextFail]_vars

(***************************************************************************)
(* SpecProd: one producer of result events and its bounded retries.  prod   *)
(* holds the producer, the task messages waiting in the Celery broker per   *)
(* value of request.retries (or the Service Bus message and its delivery    *)
(* count), and what the executions so far returned, raised and sent.        *)
(***************************************************************************)
\* max_retries of the task decorators
MAX_RETRIES == 3

\* Deliveries of a Service Bus message before it is dead-lettered
MaxDelivery == 3

\* Task.retry(exc=...) of Celery: while request.retries is below max_retries
\* it publishes the task again and raises Retry; once they are used up it
\* raises exc when one was passed, MaxRetriesExceededError otherwise.
celery_retry(retries, max_retries, has_exc) ==
    IF retries < max_retries THEN "Retry"
    ELSE IF has_exc THEN "Exception"
    ELSE "MaxRetriesExceededError"

\* The task messages one call of Task.retry publishes, with retries + 1
retry_published(retries, max_retries) ==
    IF celery_retry(retries, max_retries, TRUE) = "Retry" THEN 1 ELSE 0

\* fetch_stock_data_task, lines 52-65: the handler of 'except Exception as e'
\* (Retry is an Exception too): self.retry(exc=e) again, whose
\* MaxRetriesExceededError alone turns into the degraded result.
fetch_stock_data_except(retries) ==
    LET inner == celery_retry(retries, MAX_RETRIES, TRUE)
    IN  [outcome |-> IF inner = "MaxRetriesExceededError" THEN "degraded"
                     ELSE IF inner = "Retry" THEN "retry"
                     ELSE "raised",
         published |-> retry_published(retries, MAX_RETRIES)]

\* fetch_stock_data_task, one execution. work: what stock_service.fetch_stock_data
\* did ("success", "error_status" for a result with status error, "raises").
\* outcome: "ok" or "degraded" (the value returned), "retry" or "raised";
\* published: the task messages it put into the broker.  What self.retry at
\* line 34 raises (Retry, or the exception it was given) is caught at line 52,
\* so a result with status error calls self.retry twice.
fetch_stock_data_task(retries, work) ==
    IF work = "success" THEN [outcome |-> "ok", published |-> 0]
    ELSE IF work = "error_status"
    THEN LET first == celery_retry(retries, MAX_RETRIES, TRUE)
         IN  IF first = "MaxRetriesExceededError"
             THEN [outcome |-> "degraded", published |-> 0]
             ELSE [outcome |-> fetch_stock_data_except(retries).outcome,
                   published |-> retry_published(retries, MAX_RETRIES)
                                   + fetch_stock_data_except(retries).published]
    ELSE fetch_stock_data_except(retries)

\* analyze_sentiment_task, one execution.  work: "success" (analyze_articles
\* returned status success), "llm_error" (the LLM call failed:
\* SentimentService.analyze_articles catches the exception and returns the
\* neutral payload with status error, which the task returns as its result),
\* "raises" (get_sentiment_service cannot build the service).  Only an
\* exception that reaches the task is logged and passed to self.retry, whose
\* exception leaves the task.
analyze_sentiment_task(retries, work) ==
    IF work = "success" THEN [outcome |-> "ok", published |-> 0]
    ELSE IF work = "llm_error" THEN [outcome |-> "degraded", published |-> 0]
    ELSE [outcome |-> IF celery_retry(retries, MAX_RETRIES, TRUE) = "Retry"
                      THEN "retry" ELSE "raised",
          published |-> retry_published(retries, MAX_RETRIES)]

\* celery_app.handle_task_failure, the on_failure of every task: the
\* dead_letter_task messages it publishes for a task that failed
handle_task_failure(retries, max_retries) ==
    IF retries >= max_retries THEN 1 ELSE 0

CeleryTasks == {"fetch_stock_data_task", "analyze_sentiment_task"}

Producers == CeleryTasks \cup {"llm_functions"}

\* How the work of one execution of Celery task p can turn out
WorksOf(p) ==
    IF p = "fetch_stock_data_task" THEN {"success", "error_status", "raises"}
    ELSE {"success", "llm_error", "raises"}

\* One execution of Celery task p with request.retries = retries
AttemptOf(p, retries, work) ==
    IF p = "fetch_stock_data_task" THEN fetch_stock_data_task(retries, work)
    ELSE analyze_sentiment_task(retries, work)

\* The messages of the llm-queue: task_type, llm_config and the headlines of
\* data ("empty": no headline, "dicts": articles, "strings": their titles)
LlmTaskTypes == {"analyze_sentiment", "generate_insights", "generate_summary"}

LlmQueueMessages ==
    [task_type : LlmTaskTypes, llm_config : {None, PyDict(0), PyDict(3)},
     headlines : {"empty", "dicts", "strings"}]

NoLlmMessage == [task_type |-> "none", llm_config |-> None, headlines |-> "empty"]

\* The calls of the LLM one delivery can make, one per provider method
LlmCalls == {"analyze_sentiment", "generate_summary", "generate_insights"}

\* What one delivery meets: LLMProviderFactory.create returns or raises, the
\* calls of the LLM in llm_fail fail (each call fails or succeeds on its
\* own), and the send_messages call number send_fail raises (0: none does)
LlmEnvs == [create : {"ok", "raises"}, llm_fail : SUBSET LlmCalls, send_fail : 0..3]

\* Whether the provider method calls the LLM at all: analyze_sentiment and
\* generate_summary return their fixed value for an empty list of headlines
\* before any call, generate_insights always calls
calls_llm(method, headlines) ==
    method = "generate_insights" \/ headlines # "empty"

\* The result events main builds for message.  A provider method whose LLM
\* call failed returns its fallback text or the empty sentiment with an
\* error, which main sends on as the degraded result of that slot; a method
\* that made no call returns its normal value.
messages_to_send(message, env) ==
    LET ev(tt, method) ==
            [task_type |-> tt,
             degraded |-> calls_llm(method, message.headlines) /\ method \in env.llm_fail]
    IN  IF message.task_type = "analyze_sentiment"
        THEN <<ev("llm_sentiment_ready", "analyze_sentiment"),
               ev("llm_summary_ready", "generate_summary"),
               ev("llm_insights_ready", "generate_insights")>>
        ELSE <<ev("llm_insights_ready", "generate_insights")>>

\* functions/llm_functions main, one delivery: whether it returned or raised,
\* and the events it sent to the aggregate-queue before that.
llm_functions_main(message, env) ==
    IF ~Truthy(message.llm_config)
    THEN [outcome |-> "returned", sent |-> << >>]
    ELSE IF env.create = "raises"
    THEN [outcome |-> "raised", sent |-> << >>]
    ELSE IF message.task_type = "analyze_sentiment" /\ message.headlines = "strings"
    THEN \* generate_summary calls article.get on a str
         [outcome |-> "raised", sent |-> << >>]
    ELSE IF message.task_type \notin {"analyze_sentiment", "generate_insights"}
    THEN [outcome |-> "returned", sent |-> << >>]
    ELSE LET msgs == messages_to_send(message, env)
         IN  IF env.send_fail \in 1..Len(msgs)
             THEN [outcome |-> "raised", sent |-> SubSeq(msgs, 1, env.send_fail - 1)]
             ELSE [outcome |-> "returned", sent |-> msgs]

\* The work of a delivery failed: a call of the LLM or of the provider
\* factory failed, or main raised
LlmWorkFailed(message, env) ==
    \/ llm_functions_main(message, env).outcome = "raised"
    \/ \E n \in DOMAIN llm_functions_main(message, env).sent :
          llm_functions_main(message, env).sent[n].degraded

InitProd ==
    /\ \E p \in Producers, m \in LlmQueueMessages :
          prod = [producer |-> p,
                  message |-> IF p = "llm_functions" THEN m ELSE NoLlmMessage,
                  waiting |-> [n \in 0..MAX_RETRIES |->
                                 IF n = 0 /\ p \in CeleryTasks THEN 1 ELSE 0],
                  queued |-> p = "llm_functions",
                  delivery_count |-> 0,
                  ok |-> 0, degraded |-> 0, raised |-> 0, dead_letter |-> 0,
                  sent |-> << >>,
                  all_failed |-> TRUE]
    /\ store = EmptyRedis.store
    /\ expiry = EmptyRedis.expiry
    /\ completed = 0
    /\ deleted = 0
    /\ InitUnusedConc
    /\ InitUnusedPerm
    /\ InitUnusedPhase
    /\ InitUnusedFail
    /\ InitUnusedCb
    /\ InitUnusedExt

\* A worker executes one waiting message of the Celery task, whose
\* request.retries is retries and whose work turns out as work
Attempt(retries, work) ==
    /\ prod.producer \in CeleryTasks
    /\ prod.waiting[retries] > 0
    /\ LET out == AttemptOf(prod.producer, retries, work)
           failed == out.outcome = "raised"
       IN  prod' = [prod EXCEPT
                !.waiting = [n \in 0..MAX_RETRIES |->
                               IF n = retries THEN @[n] - 1
                               ELSE IF n = retries + 1 THEN @[n] + out.published
                               ELSE @[n]],
                !.ok = IF out.outcome = "ok" THEN @ + 1 ELSE @,
                !.degraded = IF out.outcome = "degraded" THEN @ + 1 ELSE @,
                !.raised = IF failed THEN @ + 1 ELSE @,
                !.dead_letter = IF failed
                                THEN @ + handle_task_failure(retries, MAX_RETRIES)
                                ELSE @,
                !.all_failed = @ /\ work # "success"]
    /\ UNCHANGED <<redisVars, concVars, permVars, phaseVars, failVars, cbVars, extVars>>

\* Service Bus delivers the llm-queue message to main; a delivery that raises
\* is repeated until the delivery count is used up
DeliverLlm(env) ==
    /\ prod.producer = "llm_functions"
    /\ prod.queued
    /\ LET out == llm_functions_main(prod.message, env)
       IN  prod' = [prod EXCEPT
                !.delivery_count = @ + 1,
                !.queued = out.outcome = "raised" /\ prod.delivery_count + 1 < MaxDelivery,
                !.raised = IF out.outcome = "raised" THEN @ + 1 ELSE @,
                !.dead_letter = IF out.outcome = "raised"
                                   /\ prod.delivery_count + 1 >= MaxDelivery
                                THEN @ + 1 ELSE @,
                !.sent = @ \o out.sent,
                !.ok = @ + Len(SelectSeq(out.sent, LAMBDA e : ~e.degraded)),
                !.degraded = @ + Len(SelectSeq(out.sent, LAMBDA e : e.degraded)),
                !.all_failed = @ /\ LlmWorkFailed(prod.message, env)]
    /\ UNCHANGED <<redisVars, concVars, permVars, phaseVars, failVars, cbVars, extVars>>

NextProd ==
    \/ \E retries \in 0..MAX_RETRIES, work \in WorksOf(prod.producer) :
          Attempt(retries, work)
    \/ \E env \in LlmEnvs : DeliverLlm(env)

SpecProd == InitProd /\ [][NextProd]_vars

(***************************************************************************)
(* SpecTtl: one handler invocation at a time runs main command by command   *)
(* while time passes between its commands, Redis removes the keys whose     *)
(* time-to-live has run out, and ParallelAnalyzer writes the progress of    *)
(* its task into the same key of the same Redis.                            *)
(***************************************************************************)
\* Time advances in steps of TASK_TTL / TicksPerTtl seconds
TicksPerTtl == 3
TickSeconds == TASK_TTL \div TicksPerTtl

\* The seconds since the last write of a key are counted up to IdleCap
IdleCap == 2 * TASK_TTL

\* Redis after d seconds: the time-to-live of every key that has one goes
\* down by d, and a key whose time-to-live has run out is removed
RedisElapse(r, d) ==
    [store  |-> [k \in Keys |-> IF r.expiry[k] > 0 /\ r.expiry[k] <= d
                                THEN NoHash ELSE r.store[k]],
     expiry |-> [k \in Keys |-> IF r.expiry[k] <= 0 THEN r.expiry[k]
                                ELSE IF r.expiry[k] <= d THEN TTL_NO_KEY
                                ELSE r.expiry[k] - d]]

\* The events of SpecTtl: the five ML events of t1 with their data
TtlMessages ==
    [task_type : {tt \in TaskTypes : SlotOf(tt) \in MLSlots},
     task_id : TaskIds, ticker : Tickers, data : {PyDict(1)}, llm_config : {None}]

\* The fields of the stored record a message writes
FieldsOf(m) == {WritesOf(m)[i].field : i \in DOMAIN WritesOf(m)}

\* ParallelAnalyzer.run_analysis: the progress and step of its three
\* _update_progress calls
ParallelSteps ==
    <<[progress |-> 10, step |-> "Fetching data in parallel"],
      [progress |-> 40, step |-> "Processing in parallel"],
      [progress |-> 90, step |-> "Saving report"]>>

\* datetime.utcnow().isoformat() of _update_progress
UpdatedAt == "2024-01-01T00:00:00"

\* ParallelAnalyzer._update_progress: one HSET of three fields of
\* task:{task_id}, the int as its decimal text, and no EXPIRE
update_progress(r, task_id, progress, step) ==
    RedisHSet(RedisHSet(RedisHSet(r, Key(task_id), "progress", IntText(progress)),
                        Key(task_id), "current_step", step),
              Key(task_id), "updated_at", UpdatedAt)

\* No invocation of main is running
IdleInvocation ==
    [m |-> EventOf("stock_data_ready"), req |-> None, pc |-> "idle", w |-> 1,
     results |-> NoResults, before |-> "never"]

InitTtl ==
    /\ store = EmptyRedis.store
    /\ expiry = EmptyRedis.expiry
    /\ completed = 0
    /\ deleted = 0
    /\ inv = [i \in {"main"} |-> IdleInvocation]
    /\ prefix = {}
    /\ last = [handler |-> "init", key |-> "none", before |-> "never",
               empty |-> TRUE, fresh |-> TRUE]
    /\ life = [k \in Keys |-> [idle |-> 0, fate |-> "never"]]
    /\ InitUnusedPerm
    /\ InitUnusedPhase
    /\ InitUnusedProd
    /\ InitUnusedCb
    /\ InitUnusedExt

\* The trigger starts main on message m once the invocation before it ended
StartTtl(m) ==
    /\ completed < MaxCompleted
    /\ \A i \in DOMAIN inv : inv[i].pc \in {"idle", "waiting", "finalized"}
    /\ inv' = [i \in DOMAIN inv |->
                 [m |-> m, req |-> None, pc |-> "hset", w |-> 1,
                  results |-> NoResults, before |-> life[Key(m.task_id)].fate]]
    /\ UNCHANGED <<redisVars, prefix, failVars, permVars, phaseVars, prodVars,
                   cbVars, extVars>>

\* The next Redis command or callback of the running invocation.  life
\* notes the writes and the DELETE of the key, last the snapshot read.
StepTtl ==
    /\ \E i \in DOMAIN inv :
          /\ \/ StepHSet(i)
             \/ StepExpire(i)
             \/ StepProgress(i)
             \/ StepHGetAll(i)
             \/ StepSendCompleted(i)
             \/ StepDelete(i)
          /\ LET k == Key(inv[i].m.task_id)
             IN  /\ life' = [life EXCEPT ![k] =
                      IF inv[i].pc \in {"hset", "expire"}
                      THEN [idle |-> 0,
                            fate |-> IF store'[k] # NoHash THEN "live" ELSE @.fate]
                      ELSE IF inv[i].pc = "delete"
                      THEN [idle |-> @.idle, fate |-> "deleted"]
                      ELSE @]
                 /\ last' = IF inv[i].pc = "hgetall"
                            THEN [handler |-> "main", key |-> k,
                                  before |-> inv[i].before,
                                  empty |-> inv'[i].results = NoResults,
                                  fresh |-> \A f \in ResultFields :
                                               IsNotNone(inv'[i].results[f])
                                                  => f \in FieldsOf(inv[i].m)]
                            ELSE last
    /\ UNCHANGED <<permVars, phaseVars, prodVars, cbVars, extVars>>

\* get_task_results called on its own for task_id
ReadTtl(task_id) ==
    /\ last' = [handler |-> "read", key |-> Key(task_id), before |-> life[Key(task_id)].fate,
                empty |-> get_task_results(R, task_id) = NoResults,
                fresh |-> TRUE]
    /\ UNCHANGED <<life, redisVars, concVars, permVars, phaseVars, prodVars, cbVars, extVars>>

\* ParallelAnalyzer reports the n-th step of its analysis of task_id
ParallelUpdateProgress(task_id, n) ==
    /\ LET r1 == update_progress(R, task_id, ParallelSteps[n].progress,
                                 ParallelSteps[n].step)
       IN  /\ store' = r1.store
           /\ expiry' = r1.expiry
    /\ life' = [life EXCEPT ![Key(task_id)] = [idle |-> 0, fate |-> "live"]]
    /\ UNCHANGED <<completed, deleted, last, concVars, permVars, phaseVars,
                   prodVars, cbVars, extVars>>

\* TickSeconds seconds pass
Tick ==
    /\ \E k \in Keys : store[k] # NoHash
    /\ LET r2 == RedisElapse(R, TickSeconds)
       IN  /\ store' = r2.store
           /\ expiry' = r2.expiry
           /\ life' = [k \in Keys |->
                 IF store[k] = NoHash THEN life[k]
                 ELSE [idle |-> IF life[k].idle + TickSeconds < IdleCap
                                THEN life[k].idle + TickSeconds ELSE IdleCap,
                       fate |-> IF r2.store[k] = NoHash THEN "expired" ELSE life[k].fate]]
    /\ UNCHANGED <<completed, deleted, last, concVars, permVars, phaseVars,
                   prodVars, cbVars, extVars>>

NextTtl ==
    \/ \E m \in TtlMessages : StartTtl(m)
    \/ StepTtl
    \/ \E task_id \in TaskIds : ReadTtl(task_id)
    \/ \E task_id \in TaskIds, n \in DOMAIN ParallelSteps :
          ParallelUpdateProgress(task_id, n)
    \/ Tick

SpecTtl == InitTtl /\ [][NextTtl]_vars

(***************************************************************************)
(* SpecCb: backend/app/utils/circuit_breaker.CircuitBreaker, called from   *)
(* several threads while time passes.                                      *)
(***************************************************************************)
CLOSED == "closed"
OPEN == "open"
HALF_OPEN == "half_open"

\* Constructor arguments and sizes of the runs
FailureThreshold == 2
RecoveryTimeout == 2
SuccessThreshold == 2
MaxThreads == 2
MaxCalls == 4

\* _last_failure_time is None
NoFailure == -1

\* __init__: the fields of a new breaker. Of the two times only the one the
\* code reads is kept, as age: the seconds since _last_failure_time.
NewBreaker(recovery_timeout) ==
    [failure_threshold |-> FailureThreshold, recovery_timeout |-> recovery_timeout,
     success_threshold |-> SuccessThreshold,
     state |-> CLOSED, failure_count |-> 0, success_count |-> 0,
     age |-> NoFailure, total_calls |-> 0, total_failures |-> 0]

\* _should_attempt_recovery
should_attempt_recovery(b) ==
    IF b.age = NoFailure THEN TRUE ELSE b.age >= b.recovery_timeout

\* The state property with no test of the recovery timeout
state_always_recovers(b) ==
    IF b.state = OPEN
    THEN [b EXCEPT !.state = HALF_OPEN, !.success_count = 0]
    ELSE b

\* The state property: the breaker after the read; the value read is its state
state(b) ==
    IF b.state = OPEN /\ should_attempt_recovery(b)
    THEN [b EXCEPT !.state = HALF_OPEN, !.success_count = 0]
    ELSE b

\* _record_success that closes only above success_threshold
record_success_above(b) ==
    LET b1 == [b EXCEPT !.success_count = @ + 1, !.total_calls = @ + 1]
    IN  IF b1.state = HALF_OPEN
        THEN IF b1.success_count > b1.success_threshold
             THEN [b1 EXCEPT !.state = CLOSED, !.failure_count = 0]
             ELSE b1
        ELSE IF b1.state = CLOSED
        THEN [b1 EXCEPT !.failure_count = IF @ - 1 > 0 THEN @ - 1 ELSE 0]
        ELSE b1

\* _record_success
record_success(b) ==
    LET b1 == [b EXCEPT !.success_count = @ + 1, !.total_calls = @ + 1]
    IN  IF b1.state = HALF_OPEN
        THEN IF b1.success_count >= b1.success_threshold
             THEN [b1 EXCEPT !.state = CLOSED, !.failure_count = 0]
             ELSE b1
        ELSE IF b1.state = CLOSED
        THEN [b1 EXCEPT !.failure_count = IF @ - 1 > 0 THEN @ - 1 ELSE 0]
        ELSE b1

\* _record_failure that opens only above failure_threshold
record_failure_above(b) ==
    LET b1 == [b EXCEPT !.failure_count = @ + 1, !.age = 0,
                        !.total_calls = @ + 1, !.total_failures = @ + 1]
    IN  IF b1.state = HALF_OPEN THEN [b1 EXCEPT !.state = OPEN]
        ELSE IF b1.state = CLOSED /\ b1.failure_count > b1.failure_threshold
        THEN [b1 EXCEPT !.state = OPEN]
        ELSE b1

\* _record_failure
record_failure(b) ==
    LET b1 == [b EXCEPT !.failure_count = @ + 1, !.age = 0,
                        !.total_calls = @ + 1, !.total_failures = @ + 1]
    IN  IF b1.state = HALF_OPEN THEN [b1 EXCEPT !.state = OPEN]
        ELSE IF b1.state = CLOSED /\ b1.failure_count >= b1.failure_threshold
        THEN [b1 EXCEPT !.state = OPEN]
        ELSE b1

\* reset
reset(b) == [b EXCEPT !.state = CLOSED, !.failure_count = 0, !.success_count = 0]

Threads == 1..MaxThreads

\* Calls whose wrapped function is running
Executing == {t \in Threads : th[t].pc = "executing"}

InitCb ==
    /\ \E rt \in {0, RecoveryTimeout} : cb = NewBreaker(rt)
    /\ th = [t \in Threads |-> [pc |-> "idle", fallback |-> FALSE, seen |-> CLOSED,
                                pre_open |-> FALSE, out |-> "none"]]
    /\ cbh = [op |-> "init", pristine |-> TRUE, half_successes |-> 0]
    /\ store = EmptyRedis.store
    /\ expiry = EmptyRedis.expiry
    /\ completed = 0
    /\ deleted = 0
    /\ InitUnusedConc
    /\ InitUnusedPerm
    /\ InitUnusedPhase
    /\ InitUnusedFail
    /\ InitUnusedProd
    /\ InitUnusedExt

\* What the history records when the breaker goes from b to b2 by operation op
HistoryAfter(op, b, b2) ==
    [op |-> op,
     pristine |-> cbh.pristine /\ op \notin {"success", "reset"},
     half_successes |->
        IF b.state # HALF_OPEN /\ b2.state = HALF_OPEN THEN 0
        ELSE IF op = "success" /\ b.state = HALF_OPEN THEN cbh.half_successes + 1
        ELSE cbh.half_successes]

\* call, lines 155-161: thread t reads self.state; an OPEN circuit gives the
\* fallback's result or CircuitOpenError, otherwise the function is invoked
CallStart(t, fallback) ==
    /\ th[t].pc = "idle"
    /\ cb.total_calls + Cardinality(Executing) < MaxCalls
    /\ LET b2 == state(cb)
       IN  /\ cb' = b2
           /\ cbh' = HistoryAfter("state", cb, b2)
           /\ th' = [th EXCEPT ![t] =
                 [pc |-> IF b2.state = OPEN THEN "idle" ELSE "executing",
                  fallback |-> fallback, seen |-> b2.state,
                  pre_open |-> cb.state = OPEN /\ cb.age # NoFailure
                                  /\ cb.age < cb.recovery_timeout,
                  out |-> IF b2.state # OPEN THEN "none"
                          ELSE IF fallback THEN "fallback" ELSE "CircuitOpenError"]]
    /\ UNCHANGED <<redisVars, concVars, permVars, phaseVars, failVars, prodVars, extVars>>

\* call, lines 164-166: the function returned
FuncReturns(t) ==
    /\ th[t].pc = "executing"
    /\ cb' = record_success(cb)
    /\ cbh' = HistoryAfter("success", cb, cb')
    /\ th' = [th EXCEPT ![t].pc = "idle", ![t].out = "result"]
    /\ UNCHANGED <<redisVars, concVars, permVars, phaseVars, failVars, prodVars, extVars>>

\* call, lines 167-168: the function raised
FuncRaises(t) ==
    /\ th[t].pc = "executing"
    /\ cb' = record_failure(cb)
    /\ cbh' = HistoryAfter("failure", cb, cb')
    /\ th' = [th EXCEPT ![t].pc = "failed"]
    /\ UNCHANGED <<redisVars, concVars, permVars, phaseVars, failVars, prodVars, extVars>>

\* call, lines 169-171: with a fallback, self.state is read again and an OPEN
\* circuit gives the fallback's result; otherwise the exception is re-raised
AfterFailure(t) ==
    /\ th[t].pc = "failed"
    /\ LET b2 == IF th[t].fallback THEN state(cb) ELSE cb
       IN  /\ cb' = b2
           /\ cbh' = HistoryAfter(IF th[t].fallback THEN "state" ELSE "raise", cb, b2)
           /\ th' = [th EXCEPT ![t].pc = "idle",
                               ![t].out = IF th[t].fallback /\ b2.state = OPEN
                                          THEN "fallback" ELSE "raised"]
    /\ UNCHANGED <<redisVars, concVars, permVars, phaseVars, failVars, prodVars, extVars>>

\* The state property read from outside call
StateRead ==
    /\ cb' = state(cb)
    /\ cbh' = HistoryAfter("state", cb, cb')
    /\ UNCHANGED <<th, redisVars, concVars, permVars, phaseVars, failVars, prodVars, extVars>>

Reset ==
    /\ cb' = reset(cb)
    /\ cbh' = HistoryAfter("reset", cb, cb')
    /\ UNCHANGED <<th, redisVars, concVars, permVars, phaseVars, failVars, prodVars, extVars>>

\* One second passes (the age is not counted beyond the recovery timeout)
TickCb ==
    /\ cb.age # NoFailure
    /\ cb.age < cb.recovery_timeout
    /\ cb' = [cb EXCEPT !.age = @ + 1]
    /\ cbh' = HistoryAfter("tick", cb, cb')
    /\ UNCHANGED <<th, redisVars, concVars, permVars, phaseVars, failVars, prodVars, extVars>>

NextCb ==
    \/ \E t \in Threads, fallback \in BOOLEAN : CallStart(t, fallback)
    \/ \E t \in Threads : FuncReturns(t)
    \/ \E t \in Threads : FuncRaises(t)
    \/ \E t \in Threads : AfterFailure(t)
    \/ StateRead
    \/ Reset
    \/ TickCb

SpecCb == InitCb /\ [][NextCb]_vars

(***************************************************************************)
(* SpecNotify: handler invocations run one at a time; the HTTP callback to *)
(* the backend succeeds or fails.                                          *)
(***************************************************************************)
\* _send_callback that lets the HTTP error out
send_callback_raising(payload, http_ok) ==
    [delivered |-> IF http_ok THEN <<payload>> ELSE << >>, raised |-> ~http_ok]

\* _send_callback: POST of the payload; an HTTP error or timeout is caught and
\* logged as a warning
send_callback(payload, http_ok) ==
    [delivered |-> IF http_ok THEN <<payload>> ELSE << >>, raised |-> FALSE]

\* main, one whole invocation in which the backend answers the callbacks
\* (http_ok) or does not. An exception out of a callback would leave the try
\* block at once and be re-raised. Gives the Redis state left, the callbacks
\* issued, those delivered, and whether main raised.
main_notifying(r, m, http_ok) ==
    LET r1 == ApplyWrites(r, m.task_id, WritesOf(m))
        issued1 == IF ProgressOf(m.task_type) > 0
                   THEN <<send_progress(m.task_id, ProgressOf(m.task_type))>>
                   ELSE << >>
        cb1 == IF issued1 = << >> THEN [delivered |-> << >>, raised |-> FALSE]
               ELSE send_callback(issued1[1], http_ok)
        results == get_task_results(r1, m.task_id)
        done == send_completed_with_data(m.task_id, results["ticker"], results)
        cb2 == send_callback(done, http_ok)
    IN  IF cb1.raised
        THEN [r |-> r1, issued |-> issued1, delivered |-> cb1.delivered, raised |-> TRUE]
        ELSE IF ~all_complete(results)
        THEN [r |-> r1, issued |-> issued1, delivered |-> cb1.delivered, raised |-> FALSE]
        ELSE IF cb2.raised
        THEN [r |-> r1, issued |-> issued1 \o <<done>>,
              delivered |-> cb1.delivered \o cb2.delivered, raised |-> TRUE]
        ELSE [r |-> RedisDelete(r1, Key(m.task_id)), issued |-> issued1 \o <<done>>,
              delivered |-> cb1.delivered \o cb2.delivered, raised |-> FALSE]

InitNotify ==
    /\ store = EmptyRedis.store
    /\ expiry = EmptyRedis.expiry
    /\ completed = 0
    /\ deleted = 0
    /\ last = [handler |-> "init", http_ok |-> TRUE, issued |-> 0, delivered |-> 0,
               raised |-> FALSE]
    /\ life = << >>
    /\ InitUnusedConc
    /\ InitUnusedPerm
    /\ InitUnusedPhase
    /\ InitUnusedProd
    /\ InitUnusedCb
    /\ InitUnusedExt

\* One invocation of main on message m; completed counts the completed
\* callbacks that reached the backend
HandleNotify(m, http_ok) ==
    /\ deleted < MaxCompleted
    /\ LET res == main_notifying(R, m, http_ok)
       IN  /\ store' = res.r.store
           /\ expiry' = res.r.expiry
           /\ completed' = completed + Len(Completed(res.delivered))
           /\ deleted' = deleted + (IF Len(Completed(res.issued)) > 0 /\ ~res.raised
                                    THEN 1 ELSE 0)
           /\ last' = [handler |-> "main", http_ok |-> http_ok,
                       issued |-> Len(Completed(res.issued)),
                       delivered |-> Len(Completed(res.delivered)),
                       raised |-> res.raised]
    /\ UNCHANGED <<life, concVars, permVars, phaseVars, prodVars, cbVars, extVars>>

NextNotify == \E m \in TtlMessages, http_ok \in BOOLEAN : HandleNotify(m, http_ok)

SpecNotify == InitNotify /\ [][NextNotify]_vars

(***************************************************************************)
(* SpecProgress: the eight result events of an LLM task, each delivered    *)
(* once, one invocation at a time, in any order; one of them may carry     *)
(* another ticker or none.                                                 *)
(***************************************************************************)
\* message.get("ticker") of the odd event: another symbol, or None
OtherTickers == {PyStr("MSFT"), None}

\* The percentages of the progress callbacks among callbacks, in order
ProgressSent(callbacks) ==
    LET ps == SelectSeq(callbacks, LAMBDA c : c.status = "processing")
    IN  [n \in 1..Len(ps) |-> ps[n].progress]

InitProgress ==
    /\ store = EmptyRedis.store
    /\ expiry = EmptyRedis.expiry
    /\ completed = 0
    /\ deleted = 0
    /\ \E j \in 0..Len(RequiredEvents(PyDict(1))), tk \in OtherTickers :
          bag = [i \in DOMAIN RequiredEvents(PyDict(1)) |->
                   IF i = j THEN [RequiredEvents(PyDict(1))[i] EXCEPT !.ticker = tk]
                   ELSE RequiredEvents(PyDict(1))[i]]
    /\ pending = DOMAIN bag
    /\ reports = << >>
    /\ progress_log = << >>
    /\ outbox = << >>
    /\ event_loop = << >>
    /\ orch = << >>
    /\ InitUnusedConc
    /\ InitUnusedPhase
    /\ InitUnusedFail
    /\ InitUnusedProd
    /\ InitUnusedCb

\* One invocation of main on the i-th event
DeliverProgress(i) ==
    /\ i \in pending
    /\ LET res == main(R, bag[i])
       IN  /\ store' = res.r.store
           /\ expiry' = res.r.expiry
           /\ completed' = completed + Len(Completed(res.callbacks))
           /\ deleted' = deleted + Len(Completed(res.callbacks))
           /\ progress_log' = progress_log \o ProgressSent(res.callbacks)
    /\ pending' = pending \ {i}
    /\ UNCHANGED <<bag, reports, outbox, event_loop, orch, concVars, phaseVars, failVars,
                   prodVars, cbVars>>

NextProgress == \E i \in DOMAIN bag : DeliverProgress(i)

SpecProgress == InitProgress /\ [][NextProgress]_vars

(***************************************************************************)
(* SpecLoop: the queue worker in a closed loop.  outbox holds the Service    *)
(* Bus messages in flight; every work request the aggregator emits is       *)
(* handled by the handler of its queue, which answers it, leaves it in the  *)
(* queue or has it dead-lettered, and nothing else produces messages.  The  *)
(* four receive loops are coroutines of one event loop, event_loop, and     *)
(* only the one that runs receives.  The worker starts from the two data    *)
(* requests of a task.                                                      *)
(* SpecAzure: the azure functions in the same closed loop, started from the *)
(* two data events of each of two tasks (their data producers are not part  *)
(* of azure-functions).                                                     *)
(***************************************************************************)
\* A message in flight.  result_type is None where the message has none
\* (message.get("result_type")).  locked: the message was received and
\* neither completed, abandoned nor dead-lettered, and the peek lock of the
\* broker is not over yet.
QueueMsg(queue, task_type, result_type, task_id, ticker, data) ==
    [queue |-> queue, task_type |-> task_type, result_type |-> result_type,
     task_id |-> task_id, ticker |-> ticker, data |-> data, locked |-> FALSE]

\* QueueWorker._send_to_aggregate
send_to_aggregate(task_id, ticker, result_type, data) ==
    QueueMsg("aggregate", "aggregate_result", PyStr(result_type), task_id, ticker, data)

\* QueueWorker._send_to_llm; the azure aggregator returns the same message
\* to its llm-queue output
send_to_llm(task_id, ticker, task_type, data) ==
    QueueMsg("llm", task_type, None, task_id, ticker, data)

\* QueueWorker._send_to_embed: the message carries stock_data and
\* news_articles
send_to_embed(task_id, ticker) ==
    QueueMsg("embed", "embed_documents", None, task_id, ticker, PyDict(2))

\* The output message of azure-functions/llm_functions.main
ready_message(task_id, ticker, result_type, data) ==
    QueueMsg("aggregate", result_type \o "_ready", None, task_id, ticker, data)

\* Number of articles a successful news fetch may return
NewsCounts == {0, 1}

\* QueueWorker._fetch_stock_data: the data, or {"ticker", "error"} on failure
QW_fetch_stock_data(ok) == IF ok THEN PyDict(1) ELSE PyDict(2)

\* QueueWorker._fetch_news: the articles, or [] on failure
QW_fetch_news(ok, n) == IF ok THEN PyList(n) ELSE PyList(0)

\* QueueWorker._handle_data_message: the messages it sends
handle_data_message(m, ok, n) ==
    IF m.task_type = "fetch_stock_data"
    THEN <<send_to_aggregate(m.task_id, m.ticker, "stock_data", QW_fetch_stock_data(ok))>>
    ELSE IF m.task_type = "fetch_news"
    THEN <<send_to_aggregate(m.task_id, m.ticker, "news", QW_fetch_news(ok, n))>>
    ELSE << >>

\* What the call of the LLM does in one handling of a request: it answers
\* with the content asked for ("ok"), it answers with empty content
\* ("empty"), the client raises json.JSONDecodeError ("raises_json"), or the
\* call raises another exception ("raises")
LlmOutcomes == {"ok", "empty", "raises_json", "raises"}

\* How the LLM handler of variant v ends for a request.  The three functions
\* of azure-functions/llm_functions catch every exception of their call.
\* LLMService of the queue worker re-raises: analyze_sentiment turns a
\* json.JSONDecodeError (also that of json.loads on empty content) into
\* neutral results and re-raises the rest, summarize_news and
\* generate_insights re-raise everything, and _handle_llm_message has no
\* except clause.
llm_handler_outcome(v, task_type, llm) ==
    IF v = "azure" THEN "returns"
    ELSE IF llm = "raises" THEN "raises"
    ELSE IF llm = "raises_json" /\ task_type # "analyze_sentiment" THEN "raises_json"
    ELSE "returns"

\* What the LLM step returns for a request with headlines or articles.
\* analyze_sentiment: a dict of overall_score, breakdown and details; the
\* except branch of the azure function adds the key error when the call
\* raised or its content was not JSON.  generate_summary and
\* generate_insights: the content of the response, which is '' for an empty
\* response; the azure functions return their fallback text when the call
\* raised.
LlmResult(v, task_type, llm) ==
    IF task_type = "analyze_sentiment"
    THEN IF v = "azure" /\ llm # "ok" THEN PyDict(4) ELSE PyDict(3)
    ELSE IF llm = "empty" THEN PyStr("")
    ELSE IF llm = "ok"
    THEN IF task_type = "generate_summary" THEN PyStr("summary") ELSE PyStr("insights")
    ELSE IF task_type = "generate_summary" THEN PyStr("Unable to generate summary")
    ELSE PyStr("Unable to generate insights")

\* The result type of an LLM task type; "none" for an unknown task type
LlmResultType(task_type) ==
    CASE task_type = "analyze_sentiment" -> "sentiment"
      [] task_type = "generate_summary" -> "summary"
      [] task_type = "generate_insights" -> "insights"
      [] OTHER -> "none"

\* QueueWorker._handle_llm_message and azure-functions/llm_functions.main:
\* the messages sent for an LLM request; none when the task type is unknown
\* or the handler raised
handle_llm_message(v, m, llm) ==
    LET rt == LlmResultType(m.task_type)
    IN  IF rt = "none" \/ llm_handler_outcome(v, m.task_type, llm) # "returns" THEN << >>
        ELSE IF v = "azure"
        THEN <<ready_message(m.task_id, m.ticker, rt, LlmResult(v, m.task_type, llm))>>
        ELSE <<send_to_aggregate(m.task_id, m.ticker, rt, LlmResult(v, m.task_type, llm))>>

\* get_rag_service(): RAGService.__init__ reads settings.ohmygpt_api_key and
\* settings.ohmygpt_api_base, which Settings (app/config.py) does not
\* declare, so building the service raises AttributeError on every call
\* (_rag_service stays None).
rag_service_built == FALSE

\* How QueueWorker._handle_embed_message ends: get_rag_service() is called
\* before the try block, so its exception leaves the handler
embed_handler_outcome == IF rag_service_built THEN "returns" ELSE "raises"

\* QueueWorker._handle_embed_message, the messages it sends: none when
\* get_rag_service raised; inside the try block the batch id, or None when
\* embedding raised
handle_embed_message(m, ok) ==
    IF embed_handler_outcome = "raises" THEN << >>
    ELSE <<send_to_aggregate(m.task_id, m.ticker, "embedding",
                             IF ok THEN PyStr("batch") ELSE None)>>

\* The work requests the aggregator emits in a branch: the queue worker sends
\* three requests when phase 1 is complete, azure's check_and_proceed returns
\* the first one only; both send generate_insights when phase 2 is complete.
Emitted(v, task_id, results, branch) ==
    IF branch = "phase1"
    THEN IF v = "azure"
         THEN <<send_to_llm(task_id, results["ticker"], "analyze_sentiment", PyDict(1))>>
         ELSE <<send_to_llm(task_id, results["ticker"], "analyze_sentiment", PyDict(1)),
                send_to_llm(task_id, results["ticker"], "generate_summary", PyDict(1)),
                send_to_embed(task_id, results["ticker"])>>
    ELSE IF branch = "phase2"
    THEN <<send_to_llm(task_id, results["ticker"], "generate_insights", PyDict(3))>>
    ELSE << >>

\* The sequence without its i-th element
RemoveAt(s, i) == SubSeq(s, 1, i - 1) \o SubSeq(s, i + 1, Len(s))

\* The queues in the order in which _process_all_queues creates their
\* _process_queue coroutines
Queues == <<"data", "llm", "embed", "aggregate">>

\* The event loop after asyncio.gather has scheduled the four coroutines: the
\* first one runs, the others wait for it to give up the loop
NewEventLoop == [running |-> Queues[1], ready |-> Tail(Queues), sleeping |-> << >>]

\* The azure functions are invoked by the Functions host, one invocation per
\* message; there is no event loop
NoEventLoop == [running |-> "host", ready |-> << >>, sleeping |-> << >>]

\* _process_queue gives up the event loop at one place only, the
\* 'await asyncio.sleep(5)' of its two outer except clauses (the receive loop
\* 'for msg in receiver' is synchronous and no handler awaits anything that
\* suspends).  The coroutine that runs starts to sleep; the loop runs the
\* first coroutine that is ready, the n sleepers whose five seconds are over
\* queueing up behind those that were ready; when none is ready the loop
\* waits for the first timer.
receiver_error(loop, n) ==
    LET due == SubSeq(loop.sleeping, 1, n)
        rest == SubSeq(loop.sleeping, n + 1, Len(loop.sleeping))
        queue == loop.ready \o due
        timers == rest \o <<loop.running>>
    IN  IF queue # << >>
        THEN [running |-> Head(queue), ready |-> Tail(queue), sleeping |-> timers]
        ELSE [running |-> Head(timers), ready |-> << >>, sleeping |-> Tail(timers)]

\* The i-th message in flight is the one a receiver hands to its handler now.
\* Queue worker: the coroutine of the queue runs and the message is the
\* first one of its queue that is not locked (locked messages are passed
\* over, also by requests sent after them).  Azure: the host invokes the
\* function for any waiting message.
Received(i) ==
    \/ variant = "azure"
    \/ /\ variant = "worker"
       /\ event_loop.running = outbox[i].queue
       /\ ~outbox[i].locked
       /\ \A j \in 1..(i - 1) : outbox[j].queue = outbox[i].queue => outbox[j].locked

\* What is in flight after the i-th message was handled, sent being what its
\* handler sent: a settled message (completed or dead-lettered) is gone, an
\* unsettled one keeps its place in its queue and stays locked until the
\* lock of the broker is over.
Settled(i, settle, sent) ==
    IF settle = "unsettled" THEN [outbox EXCEPT ![i].locked = TRUE] \o sent
    ELSE RemoveAt(outbox, i) \o sent

\* The tasks whose data events wait for the azure functions
AzureTasks == {"t1", "t2"}

\* The two data events of a task of the azure functions, with n articles
data_events(t, tk, n) ==
    <<ready_message(t, tk, "stock_data", PyDict(1)),
      ready_message(t, tk, "news", PyList(n))>>

InitLoopOf(v) ==
    /\ store = EmptyRedis.store
    /\ expiry = EmptyRedis.expiry
    /\ completed = 0
    /\ deleted = 0
    /\ InitUnusedConc
    /\ InitUnusedPerm
    /\ InitUnusedProd
    /\ InitUnusedCb
    /\ progress_log = << >>
    /\ orch = << >>
    /\ variant = v
    /\ partial_results = << >>
    /\ phase2_sent = 0
    /\ insights_sent = 0
    /\ saved = 0
    /\ last = [handler |-> "init", branch |-> "wait", settle |-> "none"]
    /\ life = << >>
    /\ event_loop = IF v = "worker" THEN NewEventLoop ELSE NoEventLoop
    /\ \E t \in TaskIds, tk \in Tickers :
          IF v = "worker"
          THEN outbox = <<QueueMsg("data", "fetch_stock_data", None, t, tk, None),
                          QueueMsg("data", "fetch_news", None, t, tk, None)>>
          ELSE \E n1 \in NewsCounts, n2 \in NewsCounts :
                  outbox = data_events("t1", tk, n1) \o data_events("t2", tk, n2)

\* The queue worker, started with the two data requests of a task
InitLoop == InitLoopOf("worker")

\* The azure functions, started with the two data events of a task
InitAzure == InitLoopOf("azure")

\* QueueWorker._handle_data_message on the i-th message in flight
DataLoop(i, ok, n) ==
    /\ outbox[i].queue = "data"
    /\ Received(i)
    /\ outbox' = Settled(i, "complete", handle_data_message(outbox[i], ok, n))
    /\ last' = [handler |-> "data", branch |-> "wait", settle |-> "complete"]
    /\ UNCHANGED <<life, progress_log, event_loop, orch, redisVars, concVars, permVars,
                   phaseVars, prodVars, cbVars>>

\* The LLM handler of the variant on the i-th message in flight, whose call
\* of the LLM turns out as llm.  The receive loop of the queue worker
\* settles the message as _process_queue does: a handler that raised leaves
\* the request unsettled (it is delivered again), one that raised
\* json.JSONDecodeError has its request dead-lettered, unanswered.
LlmLoop(i, llm) ==
    /\ outbox[i].queue = "llm"
    /\ Received(i)
    /\ LET settle == process_queue("object",
                                   llm_handler_outcome(variant, outbox[i].task_type, llm))
       IN  /\ outbox' = Settled(i, settle, handle_llm_message(variant, outbox[i], llm))
           /\ last' = [handler |-> "llm", branch |-> "wait", settle |-> settle]
    /\ UNCHANGED <<life, progress_log, event_loop, orch, redisVars, concVars, permVars,
                   phaseVars, prodVars, cbVars>>

\* QueueWorker._handle_embed_message on the i-th message in flight, settled
\* as _process_queue does
EmbedLoop(i, ok) ==
    /\ outbox[i].queue = "embed"
    /\ Received(i)
    /\ LET settle == process_queue("object", embed_handler_outcome)
       IN  /\ outbox' = Settled(i, settle, handle_embed_message(outbox[i], ok))
           /\ last' = [handler |-> "embed", branch |-> "wait", settle |-> settle]
    /\ UNCHANGED <<life, progress_log, event_loop, orch, redisVars, concVars, permVars,
                   phaseVars, prodVars, cbVars>>

\* The aggregator of the variant on the i-th message in flight: the result is
\* stored, check_and_proceed picks its branch, the requests of the branch are
\* sent.  When azure's save_report raises, main raises before the del and the
\* message stays in its queue.
AggregateLoop(i, db) ==
    /\ outbox[i].queue = "aggregate"
    /\ Received(i)
    /\ LET m == outbox[i]
           pr == Stored(variant, partial_results, m)
           branch == check_and_proceed(pr[m.task_id])
           raised == variant = "azure" /\ branch = "save" /\ db = "error"
       IN  /\ branch = "phase1" => phase2_sent < MaxSent
           /\ branch = "phase2" => insights_sent < MaxSent
           /\ branch = "save" => saved < MaxSent
           /\ phase2_sent' = phase2_sent + (IF branch = "phase1" THEN 1 ELSE 0)
           /\ insights_sent' = insights_sent + (IF branch = "phase2" THEN 1 ELSE 0)
           /\ saved' = saved + (IF branch = "save" /\ db = "ok" THEN 1 ELSE 0)
           /\ partial_results' = IF branch = "save" /\ ~raised
                                 THEN Del(pr, m.task_id)
                                 ELSE pr
           /\ outbox' = IF raised THEN outbox
                        ELSE Settled(i, "complete",
                                     Emitted(variant, m.task_id, pr[m.task_id], branch))
           /\ last' = [handler |-> "aggregate", branch |-> branch,
                       settle |-> settle_of_main(raised)]
    /\ UNCHANGED <<variant, life, progress_log, event_loop, orch, redisVars, concVars,
                   permVars, prodVars, cbVars>>

\* The receiver of the coroutine that runs raises outside the handling of a
\* message (a ServiceBusError of get_queue_receiver or of the iteration, an
\* exception of dead_letter_message): the coroutine logs it and sleeps five
\* seconds, and another coroutine gets the event loop.
ReceiverError(n) ==
    /\ variant = "worker"
    /\ n \in 0..Len(event_loop.sleeping)
    /\ event_loop' = receiver_error(event_loop, n)
    /\ last' = [handler |-> "receiver", branch |-> "wait", settle |-> "none"]
    /\ UNCHANGED <<life, progress_log, outbox, orch, redisVars, concVars, permVars,
                   phaseVars, prodVars, cbVars>>

\* The peek lock of an unsettled message is over: the broker makes the
\* message available again, at its place in the queue
LockExpires(i) ==
    /\ outbox[i].locked
    /\ outbox' = [outbox EXCEPT ![i].locked = FALSE]
    /\ last' = [handler |-> "broker", branch |-> "wait", settle |-> "none"]
    /\ UNCHANGED <<life, progress_log, event_loop, orch, redisVars, concVars, permVars,
                   phaseVars, prodVars, cbVars>>

DataStep == \E i \in DOMAIN outbox, ok \in BOOLEAN, n \in NewsCounts : DataLoop(i, ok, n)
LlmStep == \E i \in DOMAIN outbox, llm \in LlmOutcomes : LlmLoop(i, llm)
EmbedStep == \E i \in DOMAIN outbox, ok \in BOOLEAN : EmbedLoop(i, ok)
AggregateStep == \E i \in DOMAIN outbox, db \in DbOutcomes : AggregateLoop(i, db)
ReceiverStep == \E n \in 0..(Len(Queues) - 1) : ReceiverError(n)
LockStep == \E i \in DOMAIN outbox : LockExpires(i)

NextLoop ==
    DataStep \/ LlmStep \/ EmbedStep \/ AggregateStep \/ ReceiverStep \/ LockStep

SpecLoop == InitLoop /\ [][NextLoop]_vars

\* The coroutine that holds the event loop iterates over its receiver and
\* handles the message waiting in its queue (every step is enabled only
\* while the coroutine of its queue runs).  Nothing makes a coroutine give
\* up the loop, and the lock duration is the broker's: ReceiverStep and
\* LockStep have no fairness.
SpecLoopFair ==
    /\ SpecLoop
    /\ WF_vars(DataStep)
    /\ WF_vars(LlmStep)
    /\ WF_vars(EmbedStep)
    /\ WF_vars(AggregateStep)

\* The functions of azure-functions in a closed loop: llm_functions.main is
\* triggered by the llm-queue and writes to the aggregate-queue,
\* aggregate_functions.main is triggered by the aggregate-queue and writes to
\* the llm-queue
NextAzure == LlmStep \/ AggregateStep

SpecAzure == InitAzure /\ [][NextAzure]_vars

\* The Functions host invokes the function bound to a queue for every
\* message waiting in it
SpecAzureFair ==
    /\ SpecAzure
    /\ WF_vars(LlmStep)
    /\ WF_vars(AggregateStep)

(***************************************************************************)
(* SpecOrch: the durable orchestrator.  orch holds the orchestrations that  *)
(* were started, each with its input llm_config, the position pc of         *)
(* orchestrator_function (the yield it waits at), the activities it has     *)
(* called in order, and those that have completed or raised.  An activity   *)
(* that raises makes the yield that waits for it raise, which ends the      *)
(* orchestration.                                                           *)
(***************************************************************************)
MaxInstances == 2

Instances == 1..MaxInstances

\* llm_config of the orchestration input: body.get("llm_config") of the
\* starter, which is null, an empty object or a configuration
OrchLlmConfigs == {None, PyDict(0), PyDict(3)}

\* The activities of step 3: ML always, LLM `if llm_config`
parallel_tasks(llm_config) ==
    <<"activity_ml_analysis">> \o
        (IF Truthy(llm_config) THEN <<"activity_llm_analysis">> ELSE << >>)

\* "llm_enabled": llm_config is not None
llm_enabled(llm_config) == IsNotNone(llm_config)

\* The elements of a sequence
Range(s) == {s[k] : k \in DOMAIN s}

\* context.get_input(): a started orchestration before its first yield
NewOrchestration(llm_config) ==
    [pc |-> "start", llm_config |-> llm_config, called |-> << >>,
     completed |-> {}, raised |-> {}, llm_enabled |-> FALSE]

InitOrch ==
    /\ store = EmptyRedis.store
    /\ expiry = EmptyRedis.expiry
    /\ completed = 0
    /\ deleted = 0
    /\ InitUnusedConc
    /\ InitUnusedPerm
    /\ InitUnusedPhase
    /\ InitUnusedFail
    /\ InitUnusedProd
    /\ InitUnusedCb
    /\ progress_log = << >>
    /\ outbox = << >>
    /\ event_loop = << >>
    /\ orch \in [Instances -> {NewOrchestration(c) : c \in OrchLlmConfigs}]

\* The activities an orchestration waits for at its yield
Awaited(o) ==
    CASE o.pc = "fetch" -> {"activity_fetch_data"}
      [] o.pc = "cache" -> {"activity_cache_data"}
      [] o.pc = "task_all" -> Range(parallel_tasks(o.llm_config))
      [] o.pc = "aggregate" -> {"activity_aggregate"}
      [] OTHER -> {}

\* Step 1: yield context.call_activity("activity_fetch_data", ...)
CallFetch(i) ==
    /\ orch[i].pc = "start"
    /\ orch' = [orch EXCEPT ![i].pc = "fetch",
                            ![i].called = @ \o <<"activity_fetch_data">>]
    /\ UNCHANGED <<progress_log, outbox, event_loop, redisVars, concVars, permVars,
                 phaseVars, failVars, prodVars, cbVars>>

\* Step 2: yield context.call_activity("activity_cache_data", ...)
CallCache(i) ==
    /\ orch[i].pc = "fetch"
    /\ "activity_fetch_data" \in orch[i].completed
    /\ orch' = [orch EXCEPT ![i].pc = "cache",
                            ![i].called = @ \o <<"activity_cache_data">>]
    /\ UNCHANGED <<progress_log, outbox, event_loop, redisVars, concVars, permVars,
                 phaseVars, failVars, prodVars, cbVars>>

\* Steps 3 and 4: the fan-out and yield context.task_all(parallel_tasks)
FanOut(i) ==
    /\ orch[i].pc = "cache"
    /\ "activity_cache_data" \in orch[i].completed
    /\ orch' = [orch EXCEPT ![i].pc = "task_all",
                            ![i].called = @ \o parallel_tasks(orch[i].llm_config)]
    /\ UNCHANGED <<progress_log, outbox, event_loop, redisVars, concVars, permVars,
                 phaseVars, failVars, prodVars, cbVars>>

\* Step 5: yield context.call_activity("activity_aggregate", ...)
CallAggregate(i) ==
    /\ orch[i].pc = "task_all"
    /\ Awaited(orch[i]) \subseteq orch[i].completed
    /\ orch' = [orch EXCEPT ![i].pc = "aggregate",
                            ![i].called = @ \o <<"activity_aggregate">>,
                            ![i].llm_enabled = llm_enabled(orch[i].llm_config)]
    /\ UNCHANGED <<progress_log, outbox, event_loop, redisVars, concVars, permVars,
                 phaseVars, failVars, prodVars, cbVars>>

\* return aggregated
Return(i) ==
    /\ orch[i].pc = "aggregate"
    /\ "activity_aggregate" \in orch[i].completed
    /\ orch' = [orch EXCEPT ![i].pc = "returned"]
    /\ UNCHANGED <<progress_log, outbox, event_loop, redisVars, concVars, permVars,
                 phaseVars, failVars, prodVars, cbVars>>

\* The yield raises because an awaited activity raised
YieldRaises(i) ==
    /\ Awaited(orch[i]) \cap orch[i].raised # {}
    /\ orch' = [orch EXCEPT ![i].pc = "failed"]
    /\ UNCHANGED <<progress_log, outbox, event_loop, redisVars, concVars, permVars,
                 phaseVars, failVars, prodVars, cbVars>>

\* An activity that was called returns
ActivityReturns(i, a) ==
    /\ a \in Range(orch[i].called) \ (orch[i].completed \cup orch[i].raised)
    /\ orch' = [orch EXCEPT ![i].completed = @ \cup {a}]
    /\ UNCHANGED <<progress_log, outbox, event_loop, redisVars, concVars, permVars,
                 phaseVars, failVars, prodVars, cbVars>>

\* An activity that was called raises
ActivityRaises(i, a) ==
    /\ a \in Range(orch[i].called) \ (orch[i].completed \cup orch[i].raised)
    /\ orch' = [orch EXCEPT ![i].raised = @ \cup {a}]
    /\ UNCHANGED <<progress_log, outbox, event_loop, redisVars, concVars, permVars,
                 phaseVars, failVars, prodVars, cbVars>>

Activities == {"activity_fetch_data", "activity_cache_data", "activity_ml_analysis",
               "activity_llm_analysis", "activity_aggregate"}

NextOrch ==
    \E i \in Instances :
        \/ CallFetch(i)
        \/ CallCache(i)
        \/ FanOut(i)
        \/ CallAggregate(i)
        \/ Return(i)
        \/ YieldRaises(i)
        \/ \E a \in Activities : ActivityReturns(i, a)
        \/ \E a \in Activities : ActivityRaises(i, a)

SpecOrch == InitOrch /\ [][NextOrch]_vars

(***************************************************************************)
(* Properties of SpecSeq                                                   *)
(***************************************************************************)
K1 == Key("t1")

\* The slots the completion predicate requires for the record in hash h:
\* the five ML slots, and the three LLM slots once an llm_config is stored.
RequiredOf(h) == MLSlots \cup (IF "llm_config" \in DOMAIN h THEN LLMSlots ELSE {})

\* C2: with invocations run one at a time and any event delivered any number
\* of times at any position, also after the task was finalized and deleted,
\* at most one 'completed' notification is ever sent for the task_id.
C2_AtMostOneCompleted == completed <= 1

\* C4: once every required slot has received at least one result event,
\* whatever its payload (empty list, empty object, null), the invocation that
\* processes the last of these events finds the predicate true and finalizes
\* the task: it sends the completed notification and deletes the record.
C4_NoStalledCompletion ==
    \A m \in Messages :
        LET h == ApplyWrites(R, m.task_id, WritesOf(m)).store[Key(m.task_id)]
            res == main(R, m)
        IN  RequiredOf(h) \subseteq DOMAIN h
                => /\ Completed(res.callbacks) # << >>
                   /\ res.r.store[Key(m.task_id)] = NoHash

\* C5: for a task the event does not complete, processing the same
\* (task_id, task_type, data) event twice leaves the stored record with the
\* same field values as processing it once, and sends no 'completed'.
C5_DuplicateIdempotent ==
    \A m \in Messages :
        LET once == main(R, m)
            twice == main(once.r, m)
        IN  Completed(once.callbacks) = << >>
                => /\ twice.r.store = once.r.store
                   /\ Completed(twice.callbacks) = << >>

\* C5 witness: the stored record is what some event left without completing
\* the task, so that the same event can be delivered a second time.
C5_Witness ==
    \E m \in Messages :
        /\ store[Key(m.task_id)] # NoHash
        /\ SlotOf(m.task_type) \in DOMAIN store[Key(m.task_id)]
        /\ store[Key(m.task_id)][SlotOf(m.task_type)] = json_dumps(m.data)
        /\ Cardinality(DOMAIN store[Key(m.task_id)] \cap Slots) >= 3
        /\ main(R, m).r.store = store
        /\ Completed(main(R, m).callbacks) = << >>

\* C7: once a slot reads back as present, no later event makes it read back
\* as unset while the record exists; and once all_complete is true for a
\* record it stays true at every later evaluation until the record is deleted.
C7_SlotsMonotone ==
    [][ store'[K1] # NoHash =>
            /\ \A s \in Slots :
                  IsNotNone(get_task_results(R, "t1")[s])
                      => IsNotNone(get_task_results(R, "t1")[s])'
            /\ all_complete(get_task_results(R, "t1"))
                  => all_complete(get_task_results(R, "t1"))' ]_vars

\* C10: a result event delivered for a task that was already finalized and
\* deleted is a no-op: no 'completed' notification is sent and the store is
\* left without a record for the task_id.
C10_StaleEventNoOp ==
    [][ (completed >= 1 /\ store[K1] = NoHash)
            => (store'[K1] = NoHash /\ completed' = completed) ]_vars

(***************************************************************************)
(* Properties of SpecConc                                                  *)
(***************************************************************************)
\* The invocations that have sent, or are about to send, a completed callback
Finalizing == {i \in DOMAIN inv : inv[i].pc \in {"send_completed", "delete", "finalized"}}

\* The invocations that have run to their end
Finished == {i \in DOMAIN inv : inv[i].pc \in {"waiting", "finalized"}}

\* The invocations whose slot write (their last HSET) has been issued
SlotWritten == {i \in DOMAIN inv : inv[i].w = Len(WritesOf(inv[i].m)) /\ inv[i].pc # "hset"}

\* The llm_config of the task's request
RequestConfig == inv[CHOOSE i \in DOMAIN inv : TRUE].req

\* The task_types whose result the request requires
RequiredTypes ==
    {tt \in TaskTypes : SlotOf(tt) \in MLSlots \/ IsNotNone(RequestConfig)}

\* The task_types whose result event has been written so far
Delivered == prefix \cup SlotWritten

\* C1: when every required result event of the task is delivered exactly
\* once and the invocations run concurrently, interleaved at their Redis
\* commands and the completed callback, exactly one 'completed' notification
\* is sent for the task_id.
C1_ExactlyOneCompleted ==
    (/\ prefix \cap DOMAIN inv = {}
     /\ prefix \cup DOMAIN inv = RequiredTypes
     /\ Finished = DOMAIN inv)
        => completed = 1

\* C3: a 'completed' notification is sent and the record deleted only by an
\* invocation whose snapshot has every required slot present: the five ML
\* slots, and the three LLM slots when the request of the task was made with
\* an llm_config.  While a required event of the task is undelivered no
\* invocation sends the completion or deletes the record.
C3_NoPrematureCompletion ==
    /\ \A i \in Finalizing :
          /\ \A s \in MLSlots : IsNotNone(inv[i].results[s])
          /\ IsNotNone(RequestConfig)
                => \A s \in LLMSlots : IsNotNone(inv[i].results[s])
    /\ ~(RequiredTypes \subseteq Delivered) => Finalizing = {}

\* C9: when two invocations that write different slots of the same task run
\* concurrently and neither completes the task, both slots are in the stored
\* record, each with the value its invocation wrote, once both have finished.
C9_NoClobber ==
    \A i, j \in DOMAIN inv :
        (/\ i # j
         /\ inv[i].pc = "waiting"
         /\ inv[j].pc = "waiting"
         /\ Finalizing = {})
            => /\ {SlotOf(i), SlotOf(j)} \subseteq DOMAIN store[K1]
               /\ store[K1][SlotOf(i)] = json_dumps(inv[i].m.data)
               /\ store[K1][SlotOf(j)] = json_dumps(inv[j].m.data)

\* C9 witness: two invocations for different slots ran interleaved (each read
\* the other's write) and both finished without completing the task.
C9_Witness ==
    \E i, j \in DOMAIN inv :
        /\ i # j
        /\ inv[i].pc = "waiting"
        /\ inv[j].pc = "waiting"
        /\ IsNotNone(inv[i].results[SlotOf(j)])
        /\ IsNotNone(inv[j].results[SlotOf(i)])
        /\ SlotOf(i) \notin {SlotOf(tt) : tt \in prefix}
        /\ SlotOf(j) \notin {SlotOf(tt) : tt \in prefix}
        /\ {SlotOf(i), SlotOf(j)} \subseteq DOMAIN store[K1]

\* C20: a task record is removed only by the DELETE of check_completion, in
\* an invocation whose snapshot has every required slot, after that
\* invocation sent its completed callback with the slots of that snapshot.
C20_DeleteOnlyAfterCompleted ==
    [][\A k \in Keys :
          ((store[k] # NoHash /\ store'[k] = NoHash) \/ deleted' # deleted)
          => \E i \in DOMAIN inv :
                /\ inv[i].pc = "delete" /\ inv'[i].pc = "finalized"
                /\ store'[Key(inv[i].m.task_id)] = NoHash
                /\ (store[k] # store'[k]) => k = Key(inv[i].m.task_id)
                /\ all_complete(inv[i].results)
                /\ \A s \in MLSlots : IsNotNone(inv[i].results[s])
                /\ IsNotNone(inv[i].results["llm_config"])
                      => \A s \in LLMSlots : IsNotNone(inv[i].results[s])
                /\ completed > deleted
                /\ send_completed_with_data(inv[i].m.task_id, inv[i].results["ticker"],
                                            inv[i].results).data
                      = [s \in Slots |-> inv[i].results[s]]]_vars

\* An invocation has deleted the record after sending the completed callback
C20_Witness ==
    \E i \in DOMAIN inv :
        /\ inv[i].pc = "finalized"
        /\ store[Key(inv[i].m.task_id)] = NoHash
        /\ completed >= 1
        /\ deleted >= 1

\* The task_types whose slots check_completion requires of a record without
\* llm_config, as every record of a task is whose events come from the
\* producers
CheckedTypes == {tt \in TaskTypes : SlotOf(tt) \in MLSlots}

\* C27: when the invocations that deliver the last of the events whose slots
\* check_completion requires run concurrently and each has run to its end,
\* at least one of them has read a complete snapshot and sent the completed
\* callback; and no run ends with a record in the store that holds every
\* slot check_completion requires of it.
C27_SomeInvocationCompletes ==
    Finished = DOMAIN inv =>
        /\ (/\ prefix \cap DOMAIN inv = {}
            /\ ~(CheckedTypes \subseteq prefix)
            /\ CheckedTypes \subseteq prefix \cup DOMAIN inv)
              => /\ completed >= 1
                 /\ \E i \in DOMAIN inv : inv[i].pc = "finalized"
        /\ ~(/\ store[K1] # NoHash
             /\ RequiredOf(store[K1]) \subseteq DOMAIN store[K1])

\* Two invocations delivered the last two of these events concurrently: one
\* read a partial snapshot, the other completed the task
C27_Witness ==
    /\ Cardinality(DOMAIN inv) = 2
    /\ prefix \cap DOMAIN inv = {}
    /\ prefix \cup DOMAIN inv = CheckedTypes
    /\ \E i, j \in DOMAIN inv : inv[i].pc = "waiting" /\ inv[j].pc = "finalized"
    /\ completed = 1

(***************************************************************************)
(* Properties of SpecPerm                                                  *)
(***************************************************************************)
\* C6: for a fixed multiset of result events of one task that contains every
\* required slot, processed one at a time, every delivery order sends a
\* completed report with the same per-slot data (here: the reports of the
\* delivery in the order of bag) and ends with no record stored under the
\* task's key.
C6_OrderIndependent ==
    pending = {}
        => /\ store[K1] = NoHash
           /\ reports = ReportsOf(EmptyRedis, bag)
           /\ Len(reports) >= 1

(***************************************************************************)
(* Properties of SpecPhase                                                 *)
(***************************************************************************)
\* C8: once stock_data and news have both arrived and the phase-2 work
\* requests have been emitted, no later event for the task causes them to be
\* emitted a second time (a duplicate news event before the sentiment result
\* emits nothing).
C8_Phase2EmittedOnce == phase2_sent <= 1

(***************************************************************************)
(* Properties of SpecFail                                                  *)
(***************************************************************************)
\* C11: a result event with a missing task_id or an unrecognized task_type is
\* rejected: the invocation writes nothing to the task store and ends with a
\* failure raised to its caller instead of returning normally.
C11_MalformedRejected ==
    (last.handler = "main" /\ last.malformed /\ last.failed = "none")
        => (last.raised /\ ~last.wrote)

\* C12: when a Redis command fails while main merges an event (the HSET or
\* EXPIRE of update_task_field, or the HGETALL that follows), the invocation
\* raises, its message is not completed and it sends no 'completed' callback;
\* the queue worker's loop completes no message whose handler raised.
C12_StoreFailurePropagates ==
    /\ (last.handler = "main" /\ last.failed \in {"hset", "expire", "hgetall"})
          => (last.raised /\ last.settle # "complete" /\ last.sent = 0)
    /\ (last.handler = "worker" /\ last.raised) => last.settle # "complete"
    /\ last.settle = "complete" => last.failed = "none"

\* The HSET of the fifth slot failed: the record holds the four other slots
C12_Witness ==
    /\ last.handler = "main"
    /\ last.failed = "hset"
    /\ last.raised
    /\ Cardinality(DOMAIN store[Key("t1")] \cap MLSlots) = 4

(***************************************************************************)
(* Properties of SpecProd                                                  *)
(***************************************************************************)
\* Nothing of the producer is left to execute or deliver
ProducerEnded ==
    /\ \A n \in 0..MAX_RETRIES : prod.waiting[n] = 0
    /\ ~prod.queued

\* C13: a producer whose work failed on every one of its executions has, when
\* the last of them ends, emitted a result carrying a degraded payload.
C13_DegradedResultEmitted ==
    (ProducerEnded /\ prod.all_failed) => prod.degraded >= 1

(***************************************************************************)
(* Properties of SpecTtl                                                   *)
(***************************************************************************)
\* An update_task_field call on key k has issued its HSET and not yet its EXPIRE
MidWrite(k) ==
    \E i \in DOMAIN inv : inv[i].pc = "expire" /\ Key(inv[i].m.task_id) = k

\* C14: every write of a task field sets the record's time-to-live back to
\* TASK_TTL: a record that exists (and is not between the HSET and the
\* EXPIRE of a write) has an expiry, equal to TASK_TTL less the time since
\* its last write, so a record not written for TASK_TTL seconds is gone.
C14_TtlRefreshedOnWrite ==
    \A k \in Keys :
        (store[k] # NoHash /\ ~MidWrite(k)) =>
            /\ expiry[k] > 0
            /\ expiry[k] = TASK_TTL - life[k].idle
            /\ life[k].idle < TASK_TTL

\* C15: get_task_results on a task_id whose record was never written, was
\* deleted or has expired gives the snapshot with every field None, with no
\* error; the invocation that handles an event of an expired task reads back
\* no slot but the ones that event wrote.
C15_MissingRecordReadsEmpty ==
    /\ (last.handler = "read" /\ last.before # "live") => last.empty
    /\ (last.handler = "main" /\ last.before # "live") => last.fresh

\* An event arrived for a task whose record had expired, and its invocation
\* has read the snapshot
C15_Witness ==
    /\ last.handler = "main"
    /\ last.before = "expired"
    /\ store[Key("t1")] # NoHash

\* get_task_results was called for a record that had expired
C15_WitnessRead ==
    /\ last.handler = "read"
    /\ last.before = "expired"

(***************************************************************************)
(* Properties of SpecCb                                                    *)
(***************************************************************************)
\* C16: a breaker that has recorded only failed calls since construction (no
\* success, no reset) is CLOSED while they are fewer than failure_threshold,
\* and from the failure_threshold-th on it is OPEN (or HALF_OPEN, once the
\* state was read after the recovery timeout).
C16_OpensAtThreshold ==
    cbh.pristine =>
        IF cb.total_failures < cb.failure_threshold
        THEN cb.state = CLOSED
        ELSE /\ cb.state \in {OPEN, HALF_OPEN}
             /\ cbh.op = "failure" => cb.state = OPEN
             /\ cb.state = HALF_OPEN => cb.age >= cb.recovery_timeout

\* The failure_threshold-th failed call in a row has just been recorded
C16_Witness ==
    /\ cbh.pristine
    /\ cbh.op = "failure"
    /\ cb.total_failures = cb.failure_threshold
    /\ cb.state = OPEN

\* C17: a call() made while the breaker is OPEN and the recovery timeout has
\* not elapsed since the last failure does not invoke the wrapped function:
\* it gives the fallback's result when it has one, CircuitOpenError otherwise.
C17_OpenBlocksCalls ==
    \A t \in Threads :
        th[t].pre_open =>
            /\ th[t].pc = "idle"
            /\ th[t].seen = OPEN
            /\ th[t].out = IF th[t].fallback THEN "fallback" ELSE "CircuitOpenError"

\* One call was refused with CircuitOpenError and one was given the fallback
C17_Witness ==
    \E t, u \in Threads :
        /\ th[t].pre_open /\ th[t].out = "CircuitOpenError"
        /\ th[u].pre_open /\ th[u].out = "fallback"

\* C18: OPEN becomes HALF_OPEN only by a read of the state once the recovery
\* timeout has elapsed since the last failure; in HALF_OPEN a failed call
\* gives OPEN, a successful call gives CLOSED with failure count 0 exactly
\* when it is the success_threshold-th since HALF_OPEN was entered, and
\* nothing but these and reset() leaves HALF_OPEN.
C18_HalfOpenTransitions ==
    [][/\ (cb.state = OPEN /\ cb'.state = HALF_OPEN)
            => (cbh'.op = "state" /\ cb.age # NoFailure /\ cb.age >= cb.recovery_timeout)
       /\ (cb.state = HALF_OPEN /\ cbh'.op = "failure") => cb'.state = OPEN
       /\ (cb.state = HALF_OPEN /\ cbh'.op = "success")
            => IF cbh'.half_successes = cb.success_threshold
               THEN cb'.state = CLOSED /\ cb'.failure_count = 0
               ELSE cb'.state = HALF_OPEN /\ cbh'.half_successes < cb.success_threshold
       /\ (cb.state = HALF_OPEN /\ cb'.state # HALF_OPEN)
            => cbh'.op \in {"failure", "success", "reset"}]_vars

\* The breaker has just closed on the success_threshold-th success
C18_Witness ==
    /\ cbh.op = "success"
    /\ cbh.half_successes = cb.success_threshold
    /\ cb.state = CLOSED
    /\ cb.total_failures >= cb.failure_threshold

\* The breaker has just gone back to OPEN on a failure in HALF_OPEN
C18_WitnessReopen ==
    /\ cbh.op = "failure"
    /\ cb.state = OPEN
    /\ cb.total_failures > cb.failure_threshold
    /\ cbh.pristine

\* C19: at most one call admitted in HALF_OPEN runs its wrapped function at
\* a time.
C19_OneTestCall ==
    Cardinality({t \in Executing : th[t].seen = HALF_OPEN}) <= 1

(***************************************************************************)
(* Properties of SpecNotify                                                *)
(***************************************************************************)
\* C21: the record of a task is deleted only after its final report was
\* handed off: when the completed callback of an invocation is not delivered,
\* the record is still in the store after that invocation.
C21_DeleteOnlyAfterHandOff ==
    (last.handler = "main" /\ last.issued >= 1 /\ last.delivered = 0)
        => store[Key("t1")] # NoHash

\* C25: a callback that fails does not make main fail and does not change
\* what main writes or deletes: from every state and for every event, the
\* invocation leaves the same Redis state and the same outcome whether the
\* backend answers or not, and it does not raise.
C25_CallbackFailureNoEffect ==
    /\ \A m \in TtlMessages :
          /\ main_notifying(R, m, FALSE).r = main_notifying(R, m, TRUE).r
          /\ main_notifying(R, m, FALSE).raised = main_notifying(R, m, TRUE).raised
          /\ main_notifying(R, m, FALSE).issued = main_notifying(R, m, TRUE).issued
          /\ ~main_notifying(R, m, FALSE).raised
    /\ last.handler = "main" => ~last.raised

\* An invocation completed the task while the backend did not answer
C25_Witness ==
    /\ last.handler = "main"
    /\ ~last.http_ok
    /\ last.issued = 1
    /\ last.delivered = 0
    /\ store[Key("t1")] = NoHash

(***************************************************************************)
(* Further properties of SpecSeq                                           *)
(***************************************************************************)
\* C22: the slots check_completion requires of a task are fixed by the task's
\* first event: while the record exists, no later event adds the three LLM
\* slots to the required set or removes them from it.
C22_RequiredSlotsFixed ==
    [][(store[K1] # NoHash /\ store'[K1] # NoHash)
          => RequiredOf(store'[K1]) = RequiredOf(store[K1])]_vars

(***************************************************************************)
(* Properties of SpecProgress                                              *)
(***************************************************************************)
\* C23: in every delivery order of a task's events, the percentages of the
\* progress callbacks main sends for the task never go down.
C23_ProgressNonDecreasing ==
    \A n \in 1..(Len(progress_log) - 1) : progress_log[n] <= progress_log[n + 1]

\* C24: the ticker stored for a task is the one of its first event: while the
\* record exists, a later event with another ticker or none leaves the stored
\* ticker as it was.
C24_TickerImmutable ==
    [][("ticker" \in DOMAIN store[K1] /\ store'[K1] # NoHash)
          => store'[K1]["ticker"] = store[K1]["ticker"]]_vars

(***************************************************************************)
(* Properties of SpecLoop                                                   *)
(***************************************************************************)
\* The generate_insights requests waiting in the llm-queue
InsightsRequestsWaiting ==
    Cardinality({i \in DOMAIN outbox : outbox[i].task_type = "generate_insights"})

\* C29: the queue worker sends the generate_insights request at most once
\* for a task: as long as no insights request has been taken from its queue
\* (no insights result exists yet), at most one has been sent, whatever
\* aggregate events arrived after sentiment and summary
C29_InsightsRequestedOnce ==
    (variant = "worker" /\ InsightsRequestsWaiting = insights_sent)
        => insights_sent <= 1

\* C26: in the queue worker, once the aggregator has stored stock data and
\* the degraded news result (an empty list), the task eventually reaches the
\* save-report branch
C26_DegradedNewsReachesSave ==
    \A t \in TaskIds :
        (/\ variant = "worker"
         /\ t \in DOMAIN partial_results
         /\ partial_results[t]["stock_data"] = QW_fetch_stock_data(TRUE)
         /\ partial_results[t]["news"] = QW_fetch_news(FALSE, 0))
            ~> (last.branch = "save")

\* C28: in the azure-functions aggregator, once non-empty stock_data and news
\* are both stored, the task eventually reaches the all-phases-complete
\* branch and its entry is removed
C28_AzureReachesSave ==
    \A t \in AzureTasks :
        (/\ variant = "azure"
         /\ t \in DOMAIN partial_results
         /\ Truthy(partial_results[t]["stock_data"])
         /\ Truthy(partial_results[t]["news"]))
            ~> (last.branch = "save" /\ t \notin DOMAIN partial_results)

(***************************************************************************)
(* Properties of SpecOrch                                                   *)
(***************************************************************************)
\* How many times an orchestration has called an activity
TimesCalled(o, a) == Cardinality({k \in DOMAIN o.called : o.called[k] = a})

\* The orchestration has passed the fan-out of step 3
FannedOut(o) == o.pc \in {"task_all", "aggregate", "returned"}

\* C30: an orchestration calls activity_aggregate at most once, once when it
\* has returned, and only after activity_fetch_data, activity_cache_data and
\* every analysis activity it called have completed; after the fan-out
\* activity_ml_analysis has been called, and activity_llm_analysis has been
\* called exactly when llm_config is present (not null) in the input
C30_AggregateAfterFanIn ==
    \A i \in Instances :
        LET o == orch[i]
        IN  /\ TimesCalled(o, "activity_aggregate") <= 1
            /\ o.pc = "returned" => TimesCalled(o, "activity_aggregate") = 1
            /\ TimesCalled(o, "activity_aggregate") = 1 =>
                  Range(o.called) \ {"activity_aggregate"} \subseteq o.completed
            /\ FannedOut(o) =>
                  /\ TimesCalled(o, "activity_ml_analysis") = 1
                  /\ TimesCalled(o, "activity_llm_analysis") = 1
                        <=> IsNotNone(o.llm_config)

====
